---- MODULE Spec2Model ----
(***************************************************************************)
(* A state-machine model of ci_exec: the scoped mutators of the process    *)
(* environment and of the working directory (ci_exec/utils.py), the        *)
(* helpers they call (ci_exec/core.py) and the CI provider predicates      *)
(* (ci_exec/provider.py).                                                  *)
(*                                                                         *)
(* A Python str is a sequence of one-character strings, so that the empty  *)
(* string, truthiness and str.lower() are what they are in Python.         *)
(***************************************************************************)
EXTENDS Integers, Sequences, FiniteSets, TLC

VARIABLES
    environ,   \* os.environ: a function from the names that are set to their values
    cwd,       \* the process working directory, a path (sequence of components)
    dirs,      \* the paths that exist as directories
    files,     \* the paths that exist as regular files
    objs,      \* the scope objects constructed so far (set_env / unset_env / cd)
    stack,     \* the active scopes, innermost last: one frame per with-block or decorated call
    exc,       \* the exception in flight, or NoExc
    pending,   \* the value a decorated function is returning through its scope, or NoRet
    returned,  \* the value the caller of a decorated function last received, or NoRet
    stderr,    \* the last line fail() wrote to sys.stderr, or <<>>
    entered,   \* how many scope entries were attempted so far
    verdict,   \* the answers of the last Provider query, or NoVerdict
    parser,    \* the CMakeParser object the script holds
    outcome    \* the last call on the parser: its arguments and what it returned or raised

vars == <<environ, cwd, dirs, files, objs, stack, exc, pending, returned, stderr,
          entered, verdict, parser, outcome>>

---------------------------------------------------------------------------
(* Bounds of the model *)

\* Scope entries in a run of SpecEnv (set_env / unset_env scopes).
MaxEnvEnters == 2

---------------------------------------------------------------------------
(* Python values *)

\* None: a one-element sequence that is no str (a str holds single characters).
None == <<"<None>">>

NoExc == "NoExc"
NoRet == "NoRet"
NoVerdict == [asked |-> FALSE]

\* bool(x) of an optional str x: None and "" are falsy.
Truthy(x) == x # None /\ Len(x) > 0

Range(s) == {s[i] : i \in 1..Len(s)}

\* The values of a dict.
Range2(d) == {d[k] : k \in DOMAIN d}

\* d[key] = val on a dict modelled as a function.
Put(d, key, val) == [k \in DOMAIN d \cup {key} |-> IF k = key THEN val ELSE d[k]]

\* del d[key].
Del(d, key) == [k \in DOMAIN d \ {key} |-> d[k]]

EmptyDict == [k \in {} |-> None]

\* os.getenv(key, default).
getenv(env, key, default) == IF key \in DOMAIN env THEN env[key] ELSE default

---------------------------------------------------------------------------
(* The inputs the scoped environment mutators are exercised with *)

EnvNames == {"CC", "CXX"}
EnvVals == {<<>>, <<"g", "c", "c">>, <<"i", "c", "c">>}

\* Every environment over EnvNames.
Environments == UNION {[D -> EnvVals] : D \in SUBSET EnvNames}

\* **kwargs of set_env: name/value pairs with distinct names.  Two names are
\* given in the order of EnvNameOrder: each turn of the loops of set_env reads
\* and writes the entries of its own name only.
EnvNameOrder == <<"CC", "CXX">>
KwargsOver(vals) ==
    {<<>>} \cup {<<<<n, v>>>> : n \in EnvNames, v \in vals}
           \cup {<<<<EnvNameOrder[1], v1>>, <<EnvNameOrder[2], v2>>>> : v1 \in vals, v2 \in vals}

\* *args of unset_env: names in the caller's order, duplicates allowed.
ArgsOver(names) == {<<>>} \cup {<<n>> : n \in names} \cup (names \X names)

---------------------------------------------------------------------------
(* Scope objects.  One record shape for the three classes; a class uses its  *)
(* own fields only.  uses counts the __enter__ calls on the object.          *)

BlankObj == [kind |-> "", set_env |-> <<>>, unset_env |-> <<>>,
             restore_env |-> EmptyDict, delete_env |-> <<>>,
             dest |-> <<>>, create |-> FALSE, return_dest |-> None, uses |-> 0]

\* set_env.__init__: the ValueError for no arguments, else the new object.
set_env_init(kwargs) ==
    IF Len(kwargs) = 0
    THEN [raises |-> "ValueError", obj |-> BlankObj]
    ELSE [raises |-> NoExc,
          obj |-> [BlankObj EXCEPT !.kind = "set_env", !.set_env = kwargs]]

\* The loop of set_env.__enter__ over self.set_env.items().
RECURSIVE set_env_enter_loop(_, _, _)
set_env_enter_loop(items, self, env) ==
    IF items = <<>>
    THEN [self |-> self, env |-> env]
    ELSE LET key == Head(items)[1]
             val == Head(items)[2]
             curr == getenv(env, key, None)
             self2 == IF Truthy(curr)
                      THEN [self EXCEPT !.restore_env = Put(@, key, curr)]
                      ELSE [self EXCEPT !.delete_env = Append(@, key)]
         IN set_env_enter_loop(Tail(items), self2, Put(env, key, val))

\* set_env.__enter__.
set_env_enter(self, env) == set_env_enter_loop(self.set_env, self, env)

\* The second loop of set_env.__exit__: del os.environ[key] if key in os.environ.
RECURSIVE delete_loop(_, _)
delete_loop(keys, env) ==
    IF keys = <<>> THEN env
    ELSE delete_loop(Tail(keys),
                     IF Head(keys) \in DOMAIN env THEN Del(env, Head(keys)) ELSE env)

\* The loop "for key, val in self.restore_env.items(): os.environ[key] = val".
restore_loop(restore, env) ==
    [k \in DOMAIN env \cup DOMAIN restore |->
        IF k \in DOMAIN restore THEN restore[k] ELSE env[k]]

\* A set_env.__exit__ that restores nothing when an exception is in flight.
set_env_exit_on_success_only(self, env, exc_type) ==
    IF exc_type # NoExc
    THEN env
    ELSE delete_loop(self.delete_env, restore_loop(self.restore_env, env))

\* set_env.__exit__(exc_type, ...): the environment it leaves.
set_env_exit(self, env, exc_type) ==
    delete_loop(self.delete_env, restore_loop(self.restore_env, env))

\* What set_env.__exit__ returns (no return statement: None, which is falsy).
set_env_exit_returns(self, exc_type) == FALSE

\* unset_env.__init__.
unset_env_init(args) ==
    IF Len(args) = 0
    THEN [raises |-> "ValueError", obj |-> BlankObj]
    ELSE [raises |-> NoExc,
          obj |-> [BlankObj EXCEPT !.kind = "unset_env", !.unset_env = args]]

\* The loop of unset_env.__enter__ over self.unset_env.
RECURSIVE unset_env_enter_loop(_, _, _)
unset_env_enter_loop(keys, self, env) ==
    IF keys = <<>>
    THEN [self |-> self, env |-> env]
    ELSE LET key == Head(keys)
             curr == getenv(env, key, None)
         IN IF Truthy(curr)
            THEN unset_env_enter_loop(Tail(keys),
                     [self EXCEPT !.restore_env = Put(@, key, curr)], Del(env, key))
            ELSE unset_env_enter_loop(Tail(keys), self, env)

\* unset_env.__enter__.
unset_env_enter(self, env) == unset_env_enter_loop(self.unset_env, self, env)

\* An unset_env.__exit__ that restores nothing.
unset_env_exit_forgets(self, env, exc_type) == env

\* unset_env.__exit__(exc_type, ...): the environment it leaves.
unset_env_exit(self, env, exc_type) == restore_loop(self.restore_env, env)

\* What unset_env.__exit__ returns (None).
unset_env_exit_returns(self, exc_type) == FALSE

---------------------------------------------------------------------------
(* Paths and the file system.  A path is the sequence of its components from *)
(* the root; dirs and files hold the paths that exist.                       *)

Root == <<>>
PathComps == {"a", "b"}
Paths == {Root} \cup {<<x>> : x \in PathComps} \cup (PathComps \X PathComps)

\* The path and its ancestors, the root included.
Prefixes(path) == {SubSeq(path, 1, n) : n \in 0..Len(path)}

IsPrefix(p, q) == Len(p) <= Len(q) /\ SubSeq(q, 1, Len(p)) = p

\* os.path.normpath on the components of an absolute path: ".." drops the
\* component before it and stays at the root.
RECURSIVE normpath(_, _)
normpath(done, rest) ==
    IF rest = <<>> THEN done
    ELSE IF Head(rest) = ".."
         THEN normpath(IF done = <<>> THEN <<>> ELSE SubSeq(done, 1, Len(done) - 1),
                       Tail(rest))
         ELSE normpath(Append(done, Head(rest)), Tail(rest))

\* sys.stderr line of fail(why): the "[X] " prefix, then why.
FailLine(why) == <<"[X] ">> \o why

\* fail() ends in sys.exit(): the exception it raises.
SystemExit == "SystemExit"

\* core.mkdir_p(path): path.mkdir(parents=True, exist_ok=True), fail() if it raises
\* (the path or one of its ancestors is a regular file).
mkdir_p(path, ds, fs) ==
    IF Prefixes(path) \cap fs # {}
    THEN [raises |-> SystemExit, dirs |-> ds,
          stderr |-> FailLine(<<"Unable to mkdir_p '", path, "': ", "exists as a file">>)]
    ELSE [raises |-> NoExc, dirs |-> ds \cup Prefixes(path), stderr |-> <<>>]

\* core.rm_rf(path): nothing if the path does not exist, unlink for a file,
\* shutil.rmtree for a directory.
rm_rf(path, ds, fs) ==
    IF path \notin ds \cup fs
    THEN [dirs |-> ds, files |-> fs]
    ELSE IF path \in fs
         THEN [dirs |-> ds, files |-> fs \ {path}]
         ELSE [dirs |-> {d \in ds : ~IsPrefix(path, d)},
               files |-> {f \in fs : ~IsPrefix(path, f)}]

\* cd.__init__(dest, create=create): an absolute dest is kept, a relative one
\* is made absolute with os.path.abspath, which reads the working directory
\* (and raises if that directory was removed).
cd_init(dest, create, wd, ds) ==
    IF dest.absolute
    THEN [raises |-> NoExc,
          obj |-> [BlankObj EXCEPT !.kind = "cd", !.dest = dest.parts, !.create = create]]
    ELSE IF wd \notin ds
         THEN [raises |-> "FileNotFoundError", obj |-> BlankObj]
         ELSE [raises |-> NoExc,
               obj |-> [BlankObj EXCEPT !.kind = "cd", !.create = create,
                                        !.dest = normpath(<<>>, wd \o dest.parts)]]

\* A cd.__enter__ that reads the working directory after os.chdir: it records
\* the destination as the directory to return to.
cd_enter_chdir_records_late(self, wd, ds) ==
    IF wd \notin ds \/ self.dest \notin ds
    THEN [raises |-> SystemExit, self |-> self, cwd |-> wd, dirs |-> ds,
          stderr |-> FailLine(<<"cd: could not get current working directory: ",
                                "FileNotFoundError">>)]
    ELSE [raises |-> NoExc, self |-> [self EXCEPT !.return_dest = self.dest],
          cwd |-> self.dest, dirs |-> ds, stderr |-> <<>>]

\* cd.__enter__ from "self.return_dest = Path.cwd()" on: ds is the directories
\* after the first part.
cd_enter_chdir(self, wd, ds) ==
    IF wd \notin ds
    THEN [raises |-> SystemExit, self |-> self, cwd |-> wd, dirs |-> ds,
          stderr |-> FailLine(<<"cd: could not get current working directory: ",
                                "FileNotFoundError">>)]
    ELSE IF self.dest \notin ds
         THEN [raises |-> SystemExit, self |-> [self EXCEPT !.return_dest = wd],
               cwd |-> wd, dirs |-> ds,
               stderr |-> FailLine(<<"cd: could not change directories to '", self.dest,
                                     "': ", "FileNotFoundError">>)]
         ELSE [raises |-> NoExc, self |-> [self EXCEPT !.return_dest = wd],
               cwd |-> self.dest, dirs |-> ds, stderr |-> <<>>]

\* A cd.__enter__ that creates a missing destination whatever create says.
cd_enter_always_creates(self, wd, ds, fs) ==
    IF self.dest \notin ds
    THEN LET mk == mkdir_p(self.dest, ds, fs)
         IN IF mk.raises # NoExc
            THEN [raises |-> mk.raises, self |-> self, cwd |-> wd, dirs |-> ds,
                  stderr |-> mk.stderr]
            ELSE [raises |-> NoExc, self |-> [self EXCEPT !.return_dest = wd],
                  cwd |-> self.dest, dirs |-> mk.dirs, stderr |-> <<>>]
    ELSE [raises |-> NoExc, self |-> [self EXCEPT !.return_dest = wd],
          cwd |-> self.dest, dirs |-> ds, stderr |-> <<>>]

\* cd.__enter__.
cd_enter(self, wd, ds, fs) ==
    IF self.dest \notin ds
    THEN IF self.create
         THEN LET mk == mkdir_p(self.dest, ds, fs)
              IN IF mk.raises # NoExc
                 THEN [raises |-> mk.raises, self |-> self, cwd |-> wd, dirs |-> ds,
                       stderr |-> mk.stderr]
                 ELSE cd_enter_chdir(self, wd, mk.dirs)
         ELSE [raises |-> SystemExit, self |-> self, cwd |-> wd, dirs |-> ds,
               stderr |-> FailLine(<<"cd: '", self.dest,
                                     "' is not a directory, but create=False.">>)]
    ELSE cd_enter_chdir(self, wd, ds)

\* A cd.__exit__ that ignores a failed os.chdir instead of calling fail().
cd_exit_ignores_failure(self, wd, ds, exc_type) ==
    IF self.return_dest \in ds
    THEN [raises |-> NoExc, cwd |-> self.return_dest, stderr |-> <<>>]
    ELSE [raises |-> NoExc, cwd |-> wd, stderr |-> <<>>]

\* cd.__exit__(exc_type, ...): os.chdir(self.return_dest), fail() if it raises.
cd_exit(self, wd, ds, exc_type) ==
    IF self.return_dest \in ds
    THEN [raises |-> NoExc, cwd |-> self.return_dest, stderr |-> <<>>]
    ELSE [raises |-> SystemExit, cwd |-> wd,
          stderr |-> FailLine(<<"cd: could not return to ", self.return_dest, ": ",
                                "FileNotFoundError">>)]

\* What cd.__exit__ returns when it returns (None).
cd_exit_returns(self, exc_type) == FALSE

---------------------------------------------------------------------------
(* ci_exec.provider: the CI provider predicates, functions of os.environ *)

UpperCase == <<"A", "B", "C", "D", "E", "F", "G", "H", "I", "J", "K", "L", "M",
               "N", "O", "P", "Q", "R", "S", "T", "U", "V", "W", "X", "Y", "Z">>
LowerCase == <<"a", "b", "c", "d", "e", "f", "g", "h", "i", "j", "k", "l", "m",
               "n", "o", "p", "q", "r", "s", "t", "u", "v", "w", "x", "y", "z">>

\* str.lower() on ASCII: an upper-case letter becomes its lower-case one, every
\* other character stays.
lower_char(c) ==
    IF \E i \in DOMAIN UpperCase : UpperCase[i] = c
    THEN LowerCase[CHOOSE i \in DOMAIN UpperCase : UpperCase[i] = c]
    ELSE c
lower(str) == [i \in 1..Len(str) |-> lower_char(str[i])]

\* The literals "true" and "false".
true == <<"t", "r", "u", "e">>
false == <<"f", "a", "l", "s", "e">>

\* Provider.is_appveyor.
is_appveyor(env) == lower(getenv(env, "APPVEYOR", false)) = true

\* An is_azure_pipelines that is content with any one of the three variables.
is_azure_pipelines_any(env) ==
    \/ getenv(env, "AZURE_HTTP_USER_AGENT", None) # None
    \/ getenv(env, "AGENT_NAME", None) # None
    \/ getenv(env, "BUILD_REASON", None) # None

\* Provider.is_azure_pipelines.
is_azure_pipelines(env) ==
    /\ getenv(env, "AZURE_HTTP_USER_AGENT", None) # None
    /\ getenv(env, "AGENT_NAME", None) # None
    /\ getenv(env, "BUILD_REASON", None) # None

\* Provider.is_circle_ci.
is_circle_ci(env) == lower(getenv(env, "CIRCLECI", false)) = true

\* Provider.is_github_actions.
is_github_actions(env) == lower(getenv(env, "GITHUB_ACTIONS", false)) = true

\* Provider.is_jenkins.
is_jenkins(env) ==
    /\ getenv(env, "JENKINS_URL", None) # None
    /\ getenv(env, "BUILD_NUMBER", None) # None

\* An is_travis pasted from is_appveyor with the variable name left as it was.
is_travis_reads_appveyor(env) == lower(getenv(env, "APPVEYOR", false)) = true

\* Provider.is_travis.
is_travis(env) == lower(getenv(env, "TRAVIS", false)) = true

\* Provider._all_provider_functions: the methods ProviderMeta.__new__ finds
\* marked by @provider, in the order of the class body.
all_provider_functions ==
    <<"is_appveyor", "is_azure_pipelines", "is_circle_ci", "is_github_actions",
      "is_jenkins", "is_travis">>

\* Calling one entry of _all_provider_functions.
call_provider(name, env) ==
    CASE name = "is_appveyor" -> is_appveyor(env)
      [] name = "is_azure_pipelines" -> is_azure_pipelines(env)
      [] name = "is_circle_ci" -> is_circle_ci(env)
      [] name = "is_github_actions" -> is_github_actions(env)
      [] name = "is_jenkins" -> is_jenkins(env)
      [] name = "is_travis" -> is_travis(env)

\* Provider.is_ci.
is_ci(env) ==
    \/ lower(getenv(env, "CI", false)) = true
    \/ getenv(env, "CONTINUOUS_INTEGRATION", false) = true
    \/ \E i \in DOMAIN all_provider_functions : call_provider(all_provider_functions[i], env)

\* tests/provider.py provider_sum(): how many registered predicates are true.
provider_sum(env) ==
    Cardinality({i \in DOMAIN all_provider_functions :
                    call_provider(all_provider_functions[i], env)})

---------------------------------------------------------------------------
(* ci_exec.parsers.cmake_parser: CMakeParser.  A str is a TLA+ string here   *)
(* (none of this code looks inside one), PyNone stands for None, a list is   *)
(* a sequence and a dict a function.  An argparse.Action is named by its     *)
(* dest: flag_map and dest_map hold dests, and the attributes of the action  *)
(* live in one place, actions[dest].                                         *)

PyNone == "<None>"
NoParser == [constructed |-> FALSE]
NoOutcome == [call |-> "none"]
EmptyNamespace == [a \in {} |-> PyNone]

\* bool(v) of an optional str.
TruthyStr(v) == v # PyNone /\ v # ""

makefile_generators ==
    {"Borland Makefiles", "MSYS Makefiles", "MinGW Makefiles", "NMake Makefiles",
     "NMake Makefiles JOM", "Unix Makefiles", "Watcom WMake"}
ninja_generator == {"Ninja"}
ninja_multi_generator == {"Ninja Multi-Config"}
visual_studio_generators ==
    {"Visual Studio 9 2008", "Visual Studio 10 2010", "Visual Studio 11 2012",
     "Visual Studio 12 2013", "Visual Studio 14 2015", "Visual Studio 15 2017",
     "Visual Studio 16 2019", "Visual Studio 17 2022"}
other_generators == {"Green Hills MULTI", "Xcode"}

\* A multi-config generator that tells Ninja Multi-Config from nothing.
is_multi_config_generator_without_ninja(generator) ==
    generator \in (visual_studio_generators \cup other_generators)

\* CMakeParser.is_multi_config_generator.
is_multi_config_generator(generator) ==
    generator \in (visual_studio_generators \cup other_generators \cup ninja_multi_generator)

\* CMakeParser.is_single_config_generator.
is_single_config_generator(generator) ==
    generator \in (makefile_generators \cup ninja_generator)

\* choices=None of an argparse.Action: a set that holds no str.
NoChoices == {PyNone}

\* The argparse.Action that add_argument makes: nargs is "" for a store action
\* (one value), "0" for store_true, "*" for the extra_args positional.
Action(flag, dest, action, default, choices, metavar) ==
    [dest |-> dest, option_strings |-> IF flag = PyNone THEN <<>> ELSE <<flag>>,
     action |-> action, default |-> default, choices |-> choices,
     required |-> FALSE, help |-> dest, metavar |-> metavar]

\* The flag and dest of every argument CMakeParser.__init__ registers.
flag_to_dest ==
    [f \in {"-G", "-A", "-T", "--shared", "--static", "--cc", "--cxx", "--build-type"} |->
        CASE f = "-G" -> "generator"
          [] f = "-A" -> "architecture"
          [] f = "-T" -> "toolset"
          [] f = "--shared" -> "shared"
          [] f = "--static" -> "static"
          [] f = "--cc" -> "cc"
          [] f = "--cxx" -> "cxx"
          [] f = "--build-type" -> "build_type"]

BuildTypes == {"Release", "Debug", "RelWithDebInfo", "MinSizeRel"}

\* env_or_platform_default(env=..., windows=..., darwin=..., other=...).
env_or_platform_default(env, system, name, windows, darwin, other) ==
    IF name \in DOMAIN env THEN env[name]
    ELSE CASE system = "Windows" -> windows
           [] system = "Darwin" -> darwin
           [] OTHER -> other

\* CMakeParser.__init__(add_extra_args=..., shared_or_static_required=...) in
\* the environment env on the platform system.  The -h/--help action is the
\* one argparse.ArgumentParser.__init__ adds.  positionals lists the
\* positional actions of the parser in the order they were added, each with
\* its dest and whether the caller added it (default None) or parse_args did
\* (default []); the attributes of the first one are in actions.
CMakeParser_init(add_extra_args, shared_or_static_required, env, system) ==
    LET cc == env_or_platform_default(env, system, "CC", "cl.exe", "clang", "gcc")
        cxx == env_or_platform_default(env, system, "CXX", "cl.exe", "clang++", "g++")
        generators == makefile_generators \cup ninja_generator \cup ninja_multi_generator
                          \cup visual_studio_generators \cup other_generators
        made(d) ==
            CASE d = "help" ->
                   [Action("-h", "help", "help", PyNone, NoChoices, PyNone)
                       EXCEPT !.option_strings = <<"-h", "--help">>]
              [] d = "generator" ->
                   Action("-G", "generator", "store", "Ninja", generators, "GENERATOR")
              [] d = "architecture" ->
                   Action("-A", "architecture", "store", PyNone, NoChoices, PyNone)
              [] d = "toolset" -> Action("-T", "toolset", "store", PyNone, NoChoices, PyNone)
              [] d = "shared" ->
                   Action("--shared", "shared", "store_true", FALSE, NoChoices, PyNone)
              [] d = "static" ->
                   Action("--static", "static", "store_true", FALSE, NoChoices, PyNone)
              [] d = "cc" -> Action("--cc", "cc", "store", cc, NoChoices, PyNone)
              [] d = "cxx" -> Action("--cxx", "cxx", "store", cxx, NoChoices, PyNone)
              [] d = "build_type" ->
                   Action("--build-type", "build_type", "store", "Release", BuildTypes,
                          PyNone)
    IN [constructed |-> TRUE,
        add_extra_args |-> add_extra_args,
        flag_map |-> flag_to_dest,
        dest_map |-> [d \in Range2(flag_to_dest) |-> d],
        actions |-> [d \in {"help"} \cup Range2(flag_to_dest) |-> made(d)],
        positionals |-> <<>>,
        group |-> {"shared", "static"},
        group_required |-> shared_or_static_required]

\* The extra_args positional that parse_args adds on its first call.
extra_args_action ==
    [Action(PyNone, "extra_args", "store", <<>>, NoChoices, PyNone) EXCEPT !.help = "extra"]

\* ArgumentParser._option_string_actions: whether an option string is known,
\* and the dest it leads to.
is_option_string(self, f) ==
    \E d \in DOMAIN self.actions : f \in Range(self.actions[d].option_strings)
option_string_action(self, f) ==
    CHOOSE d \in DOMAIN self.actions : f \in Range(self.actions[d].option_strings)

\* A command-line token that argparse takes for an option string: a flag of the
\* class, registered or not any more, the flag a caller adds, or the "--"
\* separator.
LooksLikeOption(t) == t \in DOMAIN flag_to_dest \cup {"-h", "--help", "--", "--x"}

\* The Namespace argparse starts from: the default of every action but help.
namespace_defaults(self) ==
    [d \in DOMAIN self.actions \ {"help"} |-> self.actions[d].default]

\* argparse.ArgumentParser.parse_args consuming the command line, for command
\* lines made of option strings with their values, then optionally "--" and
\* trailing tokens.  st holds the namespace so far, the actions seen, the
\* actions seen with a non-default value, and whether self.error() was called
\* (usage message on stderr, exit code 2).  The tokens after "--" go to the
\* first positional; every later positional matches no token and stores an
\* empty list under the same dest.
RECURSIVE argparse_consume(_, _, _)
argparse_consume(self, tokens, st) ==
    IF tokens = <<>> THEN st
    ELSE LET t == Head(tokens)
         IN IF t = "--"
            THEN IF "extra_args" \in DOMAIN self.actions
                 THEN [st EXCEPT !.ns = Put(@, "extra_args",
                                            IF Len(self.positionals) = 1
                                            THEN Tail(tokens) ELSE <<>>),
                                 !.seen = @ \cup {"extra_args"},
                                 !.nondefault = @ \cup {"extra_args"}]
                 ELSE [st EXCEPT !.error = TRUE]
            ELSE IF ~is_option_string(self, t)
            THEN [st EXCEPT !.error = TRUE]
            ELSE LET d == option_string_action(self, t)
                     a == self.actions[d]
                 IN CASE a.action = "store_true" ->
                           IF d \in self.group /\ (self.group \ {d}) \cap st.nondefault # {}
                           THEN [st EXCEPT !.error = TRUE]
                           ELSE argparse_consume(self, Tail(tokens),
                                    [st EXCEPT !.ns = Put(@, d, TRUE),
                                               !.seen = @ \cup {d},
                                               !.nondefault = @ \cup {d}])
                      [] a.action = "store" ->
                           IF Len(tokens) < 2 \/ LooksLikeOption(tokens[2])
                           THEN [st EXCEPT !.error = TRUE]
                           ELSE IF a.choices # NoChoices /\ tokens[2] \notin a.choices
                           THEN [st EXCEPT !.error = TRUE]
                           ELSE argparse_consume(self, SubSeq(tokens, 3, Len(tokens)),
                                    [st EXCEPT !.ns = Put(@, d, tokens[2]),
                                               !.seen = @ \cup {d},
                                               !.nondefault = @ \cup {d}])
                      [] OTHER -> [st EXCEPT !.error = TRUE, !.help = TRUE]

\* argparse.ArgumentParser.parse_args(args): the Namespace, or the exit code of
\* self.error() (2) or of --help (0).  A "*" positional that matched no token
\* stores its default, or [] when that default is None.
argparse_parse_args(self, args) ==
    LET st == argparse_consume(self, args,
                  [ns |-> namespace_defaults(self),
                   seen |-> IF "extra_args" \in DOMAIN self.actions
                            THEN {"extra_args"} ELSE {},
                   nondefault |-> {}, error |-> FALSE, help |-> FALSE])
        missing == {d \in DOMAIN self.actions : self.actions[d].required /\ d \notin st.seen}
        none_of_group == self.group_required /\ self.group \cap st.nondefault = {}
        ns == IF self.positionals = <<>> \/ "extra_args" \in st.nondefault THEN st.ns
              ELSE IF Len(self.positionals) > 1 \/ self.positionals[1].user
              THEN Put(st.ns, "extra_args", <<>>)
              ELSE st.ns
    IN IF st.help THEN [raises |-> SystemExit, code |-> 0, ns |-> ns]
       ELSE IF st.error \/ missing # {} \/ none_of_group
       THEN [raises |-> SystemExit, code |-> 2, ns |-> ns]
       ELSE [raises |-> NoExc, code |-> 0, ns |-> ns]

\* hasattr(parsed_args, name) and the "hasattr(...) and parsed_args.name" pattern.
hasattr(ns, name) == name \in DOMAIN ns
HasTruthyStr(ns, name) == hasattr(ns, name) /\ TruthyStr(ns[name])
HasTrue(ns, name) == hasattr(ns, name) /\ ns[name]

\* "-G" and the generator, then -A and -T if they are there and truthy.
configure_generator(ns) ==
    <<"-G", ns["generator"]>>
    \o (IF HasTruthyStr(ns, "architecture") THEN <<"-A", ns["architecture"]>> ELSE <<>>)
    \o (IF HasTruthyStr(ns, "toolset") THEN <<"-T", ns["toolset"]>> ELSE <<>>)

\* A BUILD_SHARED_LIBS step that says OFF whenever --shared was not given.
configure_shared_libs_off_by_default(ns) ==
    [raises |-> NoExc,
     args |-> <<"-DBUILD_SHARED_LIBS=" \o (IF HasTrue(ns, "shared") THEN "ON" ELSE "OFF")>>]

\* The BUILD_SHARED_LIBS step: the condition reads shared and static behind
\* hasattr, the f-string reads parsed_args.shared without it.
configure_shared_libs(ns) ==
    IF HasTrue(ns, "shared") \/ HasTrue(ns, "static")
    THEN IF hasattr(ns, "shared")
         THEN [raises |-> NoExc,
               args |-> <<"-DBUILD_SHARED_LIBS=" \o (IF ns["shared"] THEN "ON" ELSE "OFF")>>]
         ELSE [raises |-> "AttributeError", args |-> <<>>]
    ELSE [raises |-> NoExc, args |-> <<>>]

\* A compiler step that does not look at the generator.
configure_compilers_for_any_generator(ns) ==
    (IF HasTruthyStr(ns, "cc") THEN <<"-DCMAKE_C_COMPILER=" \o ns["cc"]>> ELSE <<>>)
    \o (IF HasTruthyStr(ns, "cxx") THEN <<"-DCMAKE_CXX_COMPILER=" \o ns["cxx"]>> ELSE <<>>)

\* The compiler step, for single-config generators only.
configure_compilers(ns) ==
    IF is_single_config_generator(ns["generator"])
    THEN (IF HasTruthyStr(ns, "cc") THEN <<"-DCMAKE_C_COMPILER=" \o ns["cc"]>> ELSE <<>>)
         \o (IF HasTruthyStr(ns, "cxx") THEN <<"-DCMAKE_CXX_COMPILER=" \o ns["cxx"]>>
             ELSE <<>>)
    ELSE <<>>

\* The configure half of the build-type step: the else branch of "if
\* self.is_multi_config_generator(...)".
configure_build_type(ns) ==
    IF HasTruthyStr(ns, "build_type") /\ ~is_multi_config_generator(ns["generator"])
    THEN <<"-DCMAKE_BUILD_TYPE=" \o ns["build_type"]>>
    ELSE <<>>

\* The build half of the build-type step.
build_config(ns) ==
    IF HasTruthyStr(ns, "build_type") /\ is_multi_config_generator(ns["generator"])
    THEN <<"--config", ns["build_type"]>>
    ELSE <<>>

\* An extra-arguments step that hands the trailing tokens over last first.
configure_extra_args_reversed(ns) ==
    IF hasattr(ns, "extra_args")
    THEN [i \in 1..Len(ns["extra_args"]) |->
             ns["extra_args"][Len(ns["extra_args"]) + 1 - i]]
    ELSE <<>>

\* The extra-arguments step.
configure_extra_args(ns) == IF hasattr(ns, "extra_args") THEN ns["extra_args"] ELSE <<>>

\* The part of CMakeParser.parse_args after super().parse_args(): the two
\* lists derived from the Namespace, or the AttributeError of the
\* BUILD_SHARED_LIBS step.
derive(ns) ==
    LET libs == configure_shared_libs(ns)
    IN IF libs.raises # NoExc
       THEN [raises |-> libs.raises, cmake_configure_args |-> <<>>,
             cmake_build_args |-> <<>>]
       ELSE [raises |-> NoExc,
             cmake_configure_args |->
                 configure_generator(ns) \o libs.args \o configure_compilers(ns)
                 \o configure_build_type(ns) \o configure_extra_args(ns),
             cmake_build_args |-> build_config(ns)]

\* A parse_args that never clears add_extra_args: it adds the extra_args
\* positional on every call.
CMakeParser_parse_args_adds_every_time(self, args) ==
    LET self2 == IF self.add_extra_args
                 THEN [self EXCEPT !.actions = Put(@, "extra_args", extra_args_action),
                                   !.positionals =
                                       Append(@, [dest |-> "extra_args", user |-> FALSE])]
                 ELSE self
        parsed == argparse_parse_args(self2, args)
        derived == derive(parsed.ns)
    IN IF parsed.raises # NoExc
       THEN [raises |-> parsed.raises, code |-> parsed.code, self |-> self2,
             ns |-> EmptyNamespace]
       ELSE IF derived.raises # NoExc
       THEN [raises |-> derived.raises, code |-> 1, self |-> self2, ns |-> EmptyNamespace]
       ELSE [raises |-> NoExc, code |-> 0, self |-> self2,
             ns |-> Put(Put(parsed.ns, "cmake_configure_args", derived.cmake_configure_args),
                        "cmake_build_args", derived.cmake_build_args)]

\* CMakeParser.parse_args(args): the parser afterwards (extra_args is added on
\* the first call if add_extra_args is set) and the Namespace returned, or
\* what was raised.
CMakeParser_parse_args(self, args) ==
    LET self2 == IF self.add_extra_args
                 THEN [self EXCEPT !.add_extra_args = FALSE,
                                   !.actions = Put(@, "extra_args", extra_args_action),
                                   !.positionals =
                                       Append(@, [dest |-> "extra_args", user |-> FALSE])]
                 ELSE self
        parsed == argparse_parse_args(self2, args)
        derived == derive(parsed.ns)
    IN IF parsed.raises # NoExc
       THEN [raises |-> parsed.raises, code |-> parsed.code, self |-> self2,
             ns |-> EmptyNamespace]
       ELSE IF derived.raises # NoExc
       THEN [raises |-> derived.raises, code |-> 1, self |-> self2, ns |-> EmptyNamespace]
       ELSE [raises |-> NoExc, code |-> 0, self |-> self2,
             ns |-> Put(Put(parsed.ns, "cmake_configure_args", derived.cmake_configure_args),
                        "cmake_build_args", derived.cmake_build_args)]

\* The dest argparse gives an optional argument: the dest keyword if there is
\* one, else the flag without its dashes.
option_dest(name, dest) == IF dest # PyNone THEN dest ELSE CASE name = "--x" -> "x"

\* argparse.ArgumentParser.add_argument(name, dest=dest) for a flag (a store
\* action, default None) and add_argument(name, nargs="*") for a positional:
\* a flag the parser already knows is an ArgumentError, a positional is
\* appended whatever the parser already has.
argparse_add_argument(self, name, dest) ==
    IF LooksLikeOption(name)
    THEN IF is_option_string(self, name)
         THEN [raises |-> "ArgumentError", self |-> self]
         ELSE [raises |-> NoExc,
               self |-> [self EXCEPT !.actions =
                            Put(@, option_dest(name, dest),
                                Action(name, option_dest(name, dest), "store", PyNone,
                                       NoChoices, PyNone))]]
    ELSE [raises |-> NoExc,
          self |-> [self EXCEPT
                       !.positionals = Append(@, [dest |-> name, user |-> TRUE]),
                       !.actions = IF name \in DOMAIN @ THEN @
                                   ELSE Put(@, name, Action(PyNone, name, "store", PyNone,
                                                            NoChoices, PyNone))]]

\* An add_argument that reserves extra_args whatever add_extra_args is.
add_argument_always_reserves(self, name, dest) ==
    IF name = "cmake_configure_args" THEN [raises |-> "ValueError", self |-> self]
    ELSE IF name = "cmake_build_args" THEN [raises |-> "ValueError", self |-> self]
    ELSE IF name = "extra_args" THEN [raises |-> "ValueError", self |-> self]
    ELSE argparse_add_argument(self, name, dest)

\* CMakeParser.add_argument(name, dest=dest, ...): the parser afterwards and
\* what was raised, if anything.
add_argument(self, name, dest) ==
    IF name = "cmake_configure_args" THEN [raises |-> "ValueError", self |-> self]
    ELSE IF name = "cmake_build_args" THEN [raises |-> "ValueError", self |-> self]
    ELSE IF self.add_extra_args /\ name = "extra_args"
    THEN [raises |-> "ValueError", self |-> self]
    ELSE argparse_add_argument(self, name, dest)

\* CMakeParser._get_registered_argument(arg): the dest of the action found in
\* flag_map, else in dest_map, else PyNone.
get_registered_argument(self, arg) ==
    IF arg \in DOMAIN self.flag_map THEN self.flag_map[arg]
    ELSE IF arg \in DOMAIN self.dest_map THEN self.dest_map[arg]
    ELSE PyNone

\* CMakeParser.get_argument(arg): the registered action, else the first action
\* of the parser with that dest or option string, else PyNone.
get_argument(self, arg) ==
    IF get_registered_argument(self, arg) # PyNone
    THEN get_registered_argument(self, arg)
    ELSE IF \E d \in DOMAIN self.actions :
                arg = d \/ arg \in Range(self.actions[d].option_strings)
    THEN CHOOSE d \in DOMAIN self.actions :
                arg = d \/ arg \in Range(self.actions[d].option_strings)
    ELSE PyNone

\* A _handle_conflict_resolve that forgets the pair it is given: the action
\* keeps its option string and stays in the parser.
handle_conflict_resolve_keeps_option(self, d) == self

\* self._handle_conflict_resolve(found_arg, [(found_arg.option_strings[0],
\* found_arg)]): the option string leaves the action, and an action left with
\* no option string leaves the parser.
handle_conflict_resolve(self, d) ==
    LET rest == Tail(self.actions[d].option_strings)
    IN IF rest = <<>>
       THEN [self EXCEPT !.actions = Del(@, d)]
       ELSE [self EXCEPT !.actions[d].option_strings = rest]

\* The loop of CMakeParser.remove over args: the parser and the missing list
\* it ends with.
RECURSIVE remove_loop(_, _, _)
remove_loop(self, items, missing) ==
    IF items = <<>> THEN [self |-> self, missing |-> missing]
    ELSE LET item == Head(items)
             found_arg == get_registered_argument(self, item)
             flag == IF item \in DOMAIN self.flag_map
                     THEN item ELSE self.actions[found_arg].option_strings[1]
             dest == IF item \in DOMAIN self.flag_map THEN found_arg ELSE item
             unmapped == [self EXCEPT !.flag_map = Del(@, flag), !.dest_map = Del(@, dest)]
         IN IF found_arg # PyNone
            THEN remove_loop(handle_conflict_resolve(unmapped, found_arg), Tail(items),
                             missing)
            ELSE remove_loop(self, Tail(items), Append(missing, item))

\* A remove whose generator guard knows the dest but not the flag.
remove_guards_dest_only(self, args) ==
    IF "generator" \in Range(args)
    THEN [raises |-> "ValueError", self |-> self,
          message |-> <<"'generator' argument may not be removed.">>]
    ELSE IF "extra_args" \in Range(args)
    THEN [raises |-> "ValueError", self |-> self,
          message |-> <<"'extra_args' cannot be removed, it must be prevented.">>]
    ELSE LET r == remove_loop(self, args, <<>>)
         IN IF r.missing # <<>>
            THEN [raises |-> "ValueError", self |-> r.self,
                  message |-> <<"Cannot remove unregistered arg(s): ">> \o r.missing]
            ELSE [raises |-> NoExc, self |-> r.self, message |-> <<>>]

\* A remove that reports the first unregistered argument only.
remove_reports_first_missing(self, args) ==
    IF "generator" \in Range(args) \/ "-G" \in Range(args)
    THEN [raises |-> "ValueError", self |-> self,
          message |-> <<"'generator' argument may not be removed.">>]
    ELSE IF "extra_args" \in Range(args)
    THEN [raises |-> "ValueError", self |-> self,
          message |-> <<"'extra_args' cannot be removed, it must be prevented.">>]
    ELSE LET r == remove_loop(self, args, <<>>)
         IN IF r.missing # <<>>
            THEN [raises |-> "ValueError", self |-> r.self,
                  message |-> <<"Cannot remove unregistered arg(s): ", Head(r.missing)>>]
            ELSE [raises |-> NoExc, self |-> r.self, message |-> <<>>]

\* CMakeParser.remove: the parser afterwards and the ValueError raised,
\* if any.  A message is the sequence of its parts: the first sentence of the
\* extra_args one, and for the last ValueError the prefix followed by the items
\* of the missing list, in place of the repr of the list.
remove(self, args) ==
    IF "generator" \in Range(args) \/ "-G" \in Range(args)
    THEN [raises |-> "ValueError", self |-> self,
          message |-> <<"'generator' argument may not be removed.">>]
    ELSE IF "extra_args" \in Range(args)
    THEN [raises |-> "ValueError", self |-> self,
          message |-> <<"'extra_args' cannot be removed, it must be prevented.">>]
    ELSE LET r == remove_loop(self, args, <<>>)
         IN IF r.missing # <<>>
            THEN [raises |-> "ValueError", self |-> r.self,
                  message |-> <<"Cannot remove unregistered arg(s): ">> \o r.missing]
            ELSE [raises |-> NoExc, self |-> r.self, message |-> <<>>]

supported_keys == {"default", "choices", "required", "help", "metavar"}

\* setattr(arg_obj, key, val) for every item of attrs.
set_attrs(action, attrs) ==
    [k \in DOMAIN action |-> IF k \in DOMAIN attrs THEN attrs[k] ELSE action[k]]

\* A set_argument that looks the argument up and sets the attributes before it
\* checks the generator's choices.
set_argument_checks_late(self, arg, attrs) ==
    IF ~(DOMAIN attrs \subseteq supported_keys)
    THEN [raises |-> "ValueError", self |-> self]
    ELSE IF get_argument(self, arg) = PyNone
    THEN [raises |-> "ValueError", self |-> self]
    ELSE LET set == [self EXCEPT !.actions[get_argument(self, arg)] = set_attrs(@, attrs)]
         IN IF arg \in {"-G", "generator"} /\ "choices" \in DOMAIN attrs
            THEN [raises |-> "ValueError", self |-> set]
            ELSE [raises |-> NoExc, self |-> set]

\* CMakeParser.set_argument(arg, **attrs).
set_argument(self, arg, attrs) ==
    IF ~(DOMAIN attrs \subseteq supported_keys)
    THEN [raises |-> "ValueError", self |-> self]
    ELSE IF arg \in {"-G", "generator"} /\ "choices" \in DOMAIN attrs
    THEN [raises |-> "ValueError", self |-> self]
    ELSE IF get_argument(self, arg) = PyNone
    THEN [raises |-> "ValueError", self |-> self]
    ELSE [raises |-> NoExc,
          self |-> [self EXCEPT !.actions[get_argument(self, arg)] = set_attrs(@, attrs)]]

---------------------------------------------------------------------------
(* The with-statement / ContextDecorator protocol the three classes are used *)
(* through: __enter__ before the body, __exit__ after it on every way out of *)
(* the body, the exception in flight suppressed only if __exit__ returns a   *)
(* truthy value.                                                             *)

\* Values a decorated function returns in the model.
RetVals == {"True", "False"}

\* The one exception a body raises in the model.
BodyError == "RuntimeError"

\* A stack frame: the scope object, with the environment and the working
\* directory just before its __enter__ (env0, cwd0) and the environment just
\* after it (env1): history, read by the properties only.
Frame(i, envAfter) == [obj |-> i, env0 |-> environ, env1 |-> envAfter, cwd0 |-> cwd]

Top == stack[Len(stack)]
TopObj == objs[Top.obj]
Pop == SubSeq(stack, 1, Len(stack) - 1)

\* Control is in a body (or at top level) and may call into a scope.
Running == exc = NoExc /\ pending = NoRet
CanEnter == Running

\* The exception in flight after __exit__ returned swallow.
AfterExit(swallow) == IF exc # NoExc /\ swallow THEN NoExc ELSE exc

\* "with set_env(**kwargs):" or the first call of a function decorated with it.
WithSetEnv(kwargs) ==
    /\ CanEnter
    /\ LET c == set_env_init(kwargs)
           r == set_env_enter(c.obj, environ)
       IN IF c.raises # NoExc
          THEN /\ exc' = c.raises
               /\ UNCHANGED <<environ, objs, stack, entered>>
          ELSE /\ environ' = r.env
               /\ objs' = Append(objs, [r.self EXCEPT !.uses = 1])
               /\ stack' = Append(stack, Frame(Len(objs) + 1, r.env))
               /\ entered' = entered + 1
               /\ exc' = exc
    /\ UNCHANGED <<cwd, dirs, files, pending, returned, stderr, verdict, parser, outcome>>

\* "with unset_env(*args):" or the first call of a function decorated with it.
WithUnsetEnv(args) ==
    /\ CanEnter
    /\ LET c == unset_env_init(args)
           r == unset_env_enter(c.obj, environ)
       IN IF c.raises # NoExc
          THEN /\ exc' = c.raises
               /\ UNCHANGED <<environ, objs, stack, entered>>
          ELSE /\ environ' = r.env
               /\ objs' = Append(objs, [r.self EXCEPT !.uses = 1])
               /\ stack' = Append(stack, Frame(Len(objs) + 1, r.env))
               /\ entered' = entered + 1
               /\ exc' = exc
    /\ UNCHANGED <<cwd, dirs, files, pending, returned, stderr, verdict, parser, outcome>>

\* A later call of a function decorated with the set_env object i (the object
\* is entered again, whether or not it is active).
ReEnterSetEnv(i) ==
    /\ CanEnter
    /\ i \in 1..Len(objs)
    /\ objs[i].kind = "set_env"
    /\ LET r == set_env_enter(objs[i], environ)
       IN /\ environ' = r.env
          /\ objs' = [objs EXCEPT ![i] = [r.self EXCEPT !.uses = @ + 1]]
          /\ stack' = Append(stack, Frame(i, r.env))
    /\ entered' = entered + 1
    /\ UNCHANGED <<cwd, dirs, files, exc, pending, returned, stderr, verdict, parser, outcome>>

\* A later call of a function decorated with the unset_env object i.
ReEnterUnsetEnv(i) ==
    /\ CanEnter
    /\ i \in 1..Len(objs)
    /\ objs[i].kind = "unset_env"
    /\ LET r == unset_env_enter(objs[i], environ)
       IN /\ environ' = r.env
          /\ objs' = [objs EXCEPT ![i] = [r.self EXCEPT !.uses = @ + 1]]
          /\ stack' = Append(stack, Frame(i, r.env))
    /\ entered' = entered + 1
    /\ UNCHANGED <<cwd, dirs, files, exc, pending, returned, stderr, verdict, parser, outcome>>

\* The innermost scope is a set_env one and control leaves its body (falling
\* off the end, returning, or with an exception in flight): __exit__ runs.
ExitSetEnv ==
    /\ stack # <<>>
    /\ TopObj.kind = "set_env"
    /\ environ' = set_env_exit(TopObj, environ, exc)
    /\ exc' = AfterExit(set_env_exit_returns(TopObj, exc))
    /\ stack' = Pop
    /\ pending' = NoRet
    /\ returned' = IF pending # NoRet THEN pending ELSE returned
    /\ UNCHANGED <<cwd, dirs, files, objs, stderr, entered, verdict, parser, outcome>>

\* The same for an unset_env scope.
ExitUnsetEnv ==
    /\ stack # <<>>
    /\ TopObj.kind = "unset_env"
    /\ environ' = unset_env_exit(TopObj, environ, exc)
    /\ exc' = AfterExit(unset_env_exit_returns(TopObj, exc))
    /\ stack' = Pop
    /\ pending' = NoRet
    /\ returned' = IF pending # NoRet THEN pending ELSE returned
    /\ UNCHANGED <<cwd, dirs, files, objs, stderr, entered, verdict, parser, outcome>>

\* "with cd(dest, create=create):" or the first call of a function decorated
\* with it.  The object exists even when its __enter__ fails.
WithCd(dest, create) ==
    /\ CanEnter
    /\ LET c == cd_init(dest, create, cwd, dirs)
           r == cd_enter(c.obj, cwd, dirs, files)
       IN IF c.raises # NoExc
          THEN /\ exc' = c.raises
               /\ UNCHANGED <<cwd, dirs, objs, stack, stderr, entered>>
          ELSE /\ cwd' = r.cwd
               /\ dirs' = r.dirs
               /\ entered' = entered + 1
               /\ exc' = r.raises
               /\ IF r.raises # NoExc
                  THEN /\ objs' = Append(objs, r.self)
                       /\ stack' = stack
                       /\ stderr' = r.stderr
                  ELSE /\ objs' = Append(objs, [r.self EXCEPT !.uses = 1])
                       /\ stack' = Append(stack, Frame(Len(objs) + 1, environ))
                       /\ stderr' = stderr
    /\ UNCHANGED <<environ, files, pending, returned, verdict, parser, outcome>>

\* A later call of a function decorated with the cd object i.
ReEnterCd(i) ==
    /\ CanEnter
    /\ i \in 1..Len(objs)
    /\ objs[i].kind = "cd"
    /\ LET r == cd_enter(objs[i], cwd, dirs, files)
       IN /\ cwd' = r.cwd
          /\ dirs' = r.dirs
          /\ exc' = r.raises
          /\ IF r.raises # NoExc
             THEN /\ objs' = [objs EXCEPT ![i] = r.self]
                  /\ stack' = stack
                  /\ stderr' = r.stderr
             ELSE /\ objs' = [objs EXCEPT ![i] = [r.self EXCEPT !.uses = @ + 1]]
                  /\ stack' = Append(stack, Frame(i, environ))
                  /\ stderr' = stderr
    /\ entered' = entered + 1
    /\ UNCHANGED <<environ, files, pending, returned, verdict, parser, outcome>>

\* The innermost scope is a cd one and control leaves its body: __exit__ runs.
\* An exception raised by __exit__ replaces what was in flight.
ExitCd ==
    /\ stack # <<>>
    /\ TopObj.kind = "cd"
    /\ LET r == cd_exit(TopObj, cwd, dirs, exc)
       IN /\ cwd' = r.cwd
          /\ IF r.raises # NoExc
             THEN /\ exc' = r.raises
                  /\ stderr' = r.stderr
                  /\ returned' = returned
             ELSE /\ exc' = AfterExit(cd_exit_returns(TopObj, exc))
                  /\ stderr' = stderr
                  /\ returned' = IF pending # NoRet THEN pending ELSE returned
    /\ stack' = Pop
    /\ pending' = NoRet
    /\ UNCHANGED <<environ, dirs, files, objs, entered, verdict, parser, outcome>>

\* The body (or the code around the scopes) calls rm_rf(path).
RmRf(path) ==
    /\ Running
    /\ LET r == rm_rf(path, dirs, files)
       IN /\ dirs' = r.dirs
          /\ files' = r.files
    /\ UNCHANGED <<environ, cwd, objs, stack, exc, pending, returned, stderr, entered,
                   verdict, parser, outcome>>

\* The body of the innermost scope raises.
Raise ==
    /\ Running
    /\ stack # <<>>
    /\ exc' = BodyError
    /\ UNCHANGED <<environ, cwd, dirs, files, objs, stack, pending, returned, stderr,
                   entered, verdict, parser, outcome>>

\* The decorated function of the innermost scope executes "return v".
Return(v) ==
    /\ Running
    /\ stack # <<>>
    /\ pending' = v
    /\ UNCHANGED <<environ, cwd, dirs, files, objs, stack, exc, returned, stderr,
                   entered, verdict, parser, outcome>>

\* A try/except (pytest.raises) around the scopes unwound so far catches the
\* exception in flight.
Catch ==
    /\ exc # NoExc
    /\ exc' = NoExc
    /\ UNCHANGED <<environ, cwd, dirs, files, objs, stack, pending, returned, stderr,
                   entered, verdict, parser, outcome>>

\* os.environ[name] = value, by the code around a Provider query.
Setenv(name, value) ==
    /\ verdict = NoVerdict
    /\ environ' = Put(environ, name, value)
    /\ UNCHANGED <<cwd, dirs, files, objs, stack, exc, pending, returned, stderr, entered,
                   verdict, parser, outcome>>

\* del os.environ[name].
Unsetenv(name) ==
    /\ verdict = NoVerdict
    /\ name \in DOMAIN environ
    /\ environ' = Del(environ, name)
    /\ UNCHANGED <<cwd, dirs, files, objs, stack, exc, pending, returned, stderr, entered,
                   verdict, parser, outcome>>

\* The script asks Provider.is_ci(), every vendor predicate and provider_sum()
\* in the environment as it is.
QueryProvider ==
    /\ verdict = NoVerdict
    /\ verdict' = [asked |-> TRUE,
                   is_ci |-> is_ci(environ),
                   is_appveyor |-> is_appveyor(environ),
                   is_azure_pipelines |-> is_azure_pipelines(environ),
                   is_circle_ci |-> is_circle_ci(environ),
                   is_github_actions |-> is_github_actions(environ),
                   is_jenkins |-> is_jenkins(environ),
                   is_travis |-> is_travis(environ),
                   provider_sum |-> provider_sum(environ)]
    /\ UNCHANGED <<environ, cwd, dirs, files, objs, stack, exc, pending, returned, stderr,
                   entered, parser, outcome>>

---------------------------------------------------------------------------
(* Initial values shared by the specifications *)

InitRest ==
    /\ objs = <<>>
    /\ stack = <<>>
    /\ exc = NoExc
    /\ pending = NoRet
    /\ returned = NoRet
    /\ stderr = <<>>
    /\ entered = 0
    /\ verdict = NoVerdict
    /\ parser = NoParser
    /\ outcome = NoOutcome

---------------------------------------------------------------------------
(* SpecEnv: set_env and unset_env scopes over every initial environment *)

InitEnv ==
    /\ environ \in Environments
    /\ cwd = Root
    /\ dirs = {Root}
    /\ files = {}
    /\ InitRest

NextEnv ==
    \/ \E kwargs \in KwargsOver(EnvVals) :
          entered < MaxEnvEnters /\ WithSetEnv(kwargs)
    \/ \E args \in ArgsOver(EnvNames) :
          entered < MaxEnvEnters /\ WithUnsetEnv(args)
    \/ \E i \in 1..Len(objs) : entered < MaxEnvEnters /\ ReEnterSetEnv(i)
    \/ \E i \in 1..Len(objs) : entered < MaxEnvEnters /\ ReEnterUnsetEnv(i)
    \/ ExitSetEnv
    \/ ExitUnsetEnv

SpecEnv == InitEnv /\ [][NextEnv]_vars

---------------------------------------------------------------------------
(* SpecCd: cd scopes over a small directory tree, directories removed and    *)
(* created while scopes are active                                           *)

\* Scope entries in a run of SpecCd.
MaxCdEnters == 2

\* The dest arguments cd is constructed with: every absolute path, and the
\* relative paths ".", ".." and "b".
CdDests == {[absolute |-> TRUE, parts |-> p] : p \in Paths}
           \cup {[absolute |-> FALSE, parts |-> p] : p \in {<<>>, <<"..">>, <<"b">>}}

InitCd ==
    /\ environ = EmptyDict
    /\ dirs = {Root, <<"a">>, <<"a", "b">>}
    /\ files \in {{}, {<<"b">>}}
    /\ cwd \in dirs
    /\ InitRest

NextCd ==
    \/ \E dest \in CdDests, create \in BOOLEAN :
          entered < MaxCdEnters /\ WithCd(dest, create)
    \/ \E i \in 1..Len(objs) : entered < MaxCdEnters /\ ReEnterCd(i)
    \/ ExitCd
    \/ \E path \in Paths \ {Root} : RmRf(path)

SpecCd == InitCd /\ [][NextCd]_vars

---------------------------------------------------------------------------
(* SpecScopes: the three scope classes together, with bodies that raise,     *)
(* return early and remove directories, and callers that catch               *)

\* Scope entries in a run of SpecScopes.
MaxScopeEnters == 2

ScopeKwargs == KwargsOver({<<"g", "c", "c">>})
ScopeArgs == ArgsOver({"CC"})
ScopeDests == {[absolute |-> TRUE, parts |-> p] : p \in {Root, <<"a">>, <<"b">>}}

InitScopes ==
    /\ environ \in {EmptyDict, [n \in {"CC"} |-> <<"i", "c", "c">>]}
    /\ dirs = {Root, <<"a">>}
    /\ files = {}
    /\ cwd \in dirs
    /\ InitRest

NextScopes ==
    \/ \E kwargs \in ScopeKwargs : entered < MaxScopeEnters /\ WithSetEnv(kwargs)
    \/ \E args \in ScopeArgs : entered < MaxScopeEnters /\ WithUnsetEnv(args)
    \/ \E dest \in ScopeDests, create \in BOOLEAN :
          entered < MaxScopeEnters /\ WithCd(dest, create)
    \/ \E i \in 1..Len(objs) : entered < MaxScopeEnters /\ ReEnterSetEnv(i)
    \/ \E i \in 1..Len(objs) : entered < MaxScopeEnters /\ ReEnterUnsetEnv(i)
    \/ \E i \in 1..Len(objs) : entered < MaxScopeEnters /\ ReEnterCd(i)
    \/ ExitSetEnv
    \/ ExitUnsetEnv
    \/ ExitCd
    \/ Raise
    \/ \E v \in RetVals : Return(v)
    \/ Catch
    \/ \E path \in {<<"a">>, <<"b">>} : RmRf(path)

SpecScopes == InitScopes /\ [][NextScopes]_vars

---------------------------------------------------------------------------
(* SpecProvider: the provider predicates asked in every environment over the *)
(* signal variables with at most MaxSignalsSet of them set                   *)

\* How many signal variables are set at once in a run of SpecProvider.
MaxSignalsSet == 3

GenericSignals == {"CI", "CONTINUOUS_INTEGRATION"}
AzureSignature == {"AZURE_HTTP_USER_AGENT", "AGENT_NAME", "BUILD_REASON"}
JenkinsSignature == {"JENKINS_URL", "BUILD_NUMBER"}

\* The variables tests/provider.py clears before each test (_all_providers),
\* and GITHUB_ACTIONS, which Provider.is_github_actions reads.
SignalNames ==
    GenericSignals \cup AzureSignature \cup JenkinsSignature
    \cup {"APPVEYOR", "CIRCLECI", "GITHUB_ACTIONS", "GITHUB_RUN_ID", "TRAVIS"}

SignalVals == {true, <<"T", "r", "u", "e">>, false, <<>>}

InitProvider ==
    /\ environ = EmptyDict
    /\ cwd = Root
    /\ dirs = {Root}
    /\ files = {}
    /\ InitRest

NextProvider ==
    \/ \E name \in SignalNames, value \in SignalVals :
          /\ Cardinality(DOMAIN environ \cup {name}) <= MaxSignalsSet
          /\ Setenv(name, value)
    \/ \E name \in SignalNames : Unsetenv(name)
    \/ QueryProvider

SpecProvider == InitProvider /\ [][NextProvider]_vars

---------------------------------------------------------------------------
(* The calls a build script makes on its CMakeParser.  outcome keeps the     *)
(* arguments of the last call, the parser as it was before the call (self0)  *)
(* and what the call returned or raised.                                     *)

\* parser = CMakeParser(add_extra_args=..., shared_or_static_required=...).
Construct(add_extra_args, shared_or_static_required, system) ==
    /\ parser = NoParser
    /\ parser' = CMakeParser_init(add_extra_args, shared_or_static_required, environ, system)
    /\ outcome' = NoOutcome
    /\ UNCHANGED <<environ, cwd, dirs, files, objs, stack, exc, pending, returned, stderr,
                   entered, verdict>>

\* parser.parse_args(args).
ParseArgs(args) ==
    /\ parser # NoParser
    /\ LET r == CMakeParser_parse_args(parser, args)
       IN /\ parser' = r.self
          /\ outcome' = [call |-> "parse_args", args |-> args, self0 |-> parser,
                         raises |-> r.raises, code |-> r.code, ns |-> r.ns]
    /\ UNCHANGED <<environ, cwd, dirs, files, objs, stack, exc, pending, returned, stderr,
                   entered, verdict>>

\* parser.remove(*args).
Remove(args) ==
    /\ parser # NoParser
    /\ LET r == remove(parser, args)
       IN /\ parser' = r.self
          /\ outcome' = [call |-> "remove", args |-> args, self0 |-> parser,
                         raises |-> r.raises, message |-> r.message]
    /\ UNCHANGED <<environ, cwd, dirs, files, objs, stack, exc, pending, returned, stderr,
                   entered, verdict>>

\* parser.set_argument(arg, **attrs).
SetArgument(arg, attrs) ==
    /\ parser # NoParser
    /\ LET r == set_argument(parser, arg, attrs)
       IN /\ parser' = r.self
          /\ outcome' = [call |-> "set_argument", arg |-> arg, attrs |-> attrs,
                         self0 |-> parser, raises |-> r.raises]
    /\ UNCHANGED <<environ, cwd, dirs, files, objs, stack, exc, pending, returned, stderr,
                   entered, verdict>>

\* parser.add_argument(name) or parser.add_argument(name, dest=dest).
AddArgument(name, dest) ==
    /\ parser # NoParser
    /\ LET r == add_argument(parser, name, dest)
       IN /\ parser' = r.self
          /\ outcome' = [call |-> "add_argument", name |-> name, dest |-> dest,
                         self0 |-> parser, raises |-> r.raises]
    /\ UNCHANGED <<environ, cwd, dirs, files, objs, stack, exc, pending, returned, stderr,
                   entered, verdict>>

\* parser.add_extra_args = False.
DisablePassthrough ==
    /\ parser # NoParser
    /\ parser.add_extra_args
    /\ parser' = [parser EXCEPT !.add_extra_args = FALSE]
    /\ outcome' = NoOutcome
    /\ UNCHANGED <<environ, cwd, dirs, files, objs, stack, exc, pending, returned, stderr,
                   entered, verdict>>

\* The script is done with what the last call returned or raised.
Discard ==
    /\ outcome # NoOutcome
    /\ outcome' = NoOutcome
    /\ UNCHANGED <<environ, cwd, dirs, files, objs, stack, exc, pending, returned, stderr,
                   entered, verdict, parser>>

\* What the specifications of the parser start from: no parser yet, no scope,
\* no query.
InitNoParser ==
    /\ cwd = Root
    /\ dirs = {Root}
    /\ files = {}
    /\ InitRest

---------------------------------------------------------------------------
(* SpecParse: parsers as constructed, or with another default for the        *)
(* generator, parsing command lines over every option of the class           *)

\* How many tokens follow "--" on a command line of SpecParse at most.
MaxExtraArgs == 2

ExtraTokens == {"-Werror=dev", "-DSOME_OPTION=ON"}

RECURSIVE SeqsUpTo(_, _)
SeqsUpTo(S, n) ==
    IF n = 0 THEN {<<>>}
    ELSE SeqsUpTo(S, n - 1) \cup {Append(q, x) : q \in SeqsUpTo(S, n - 1), x \in S}

\* The end of a command line: nothing, or "--" and up to MaxExtraArgs tokens.
Tails == {<<>>} \cup {<<"--">> \o q : q \in SeqsUpTo(ExtraTokens, MaxExtraArgs)}

\* A flag with each of the values, or not given.
Opt(flag, values) == {<<>>} \cup {<<flag, v>> : v \in values}

AllGenerators ==
    makefile_generators \cup ninja_generator \cup ninja_multi_generator
    \cup visual_studio_generators \cup other_generators

\* --shared and --static: neither, one, or both in either order.
SharedStatic ==
    {<<>>, <<"--shared">>, <<"--static">>, <<"--shared", "--static">>,
     <<"--static", "--shared">>}

\* Command lines over every generator -G accepts and one it refuses.
GeneratorLines ==
    {g \o ss \o bt \o tail :
        g \in Opt("-G", AllGenerators \cup {"Bogus"}),
        ss \in {<<>>, <<"--shared">>},
        bt \in Opt("--build-type", {"Debug"}),
        tail \in {<<>>, <<"--", "-Werror=dev">>}}

\* Command lines over every option, given or not, for one generator of each
\* class.
OptionLines ==
    {g \o a \o t \o ss \o cc \o cxx \o bt \o tail :
        g \in Opt("-G", {"Unix Makefiles", "Visual Studio 16 2019"}),
        a \in Opt("-A", {"x64"}),
        t \in Opt("-T", {"v142"}),
        ss \in SharedStatic,
        cc \in Opt("--cc", {"clang"}),
        cxx \in Opt("--cxx", {"clang++"}),
        bt \in Opt("--build-type", {"Debug"}),
        tail \in {<<>>, <<"--", "-DSOME_OPTION=ON", "-Werror=dev">>}}

\* Command lines over every tail, with an empty compiler and a build type
\* --build-type refuses.
TailLines ==
    {g \o cc \o bt \o tail :
        g \in Opt("-G", {"Xcode"}),
        cc \in Opt("--cc", {""}),
        bt \in Opt("--build-type", {"Fast"}),
        tail \in Tails}

CmdLines == GeneratorLines \cup OptionLines \cup TailLines

\* The set_argument calls of SpecParse: other defaults for the generator, one
\* of them no generator -G accepts.
DefaultCalls ==
    {<<"-G", [default |-> "Xcode"]>>,
     <<"generator", [default |-> "Other Generator"]>>}

InitParse ==
    /\ environ \in {EmptyDict, [n \in {"CC"} |-> "icc"]}
    /\ InitNoParser

NextParse ==
    \/ \E add_extra_args \in BOOLEAN, shared_or_static_required \in BOOLEAN,
          system \in {"Linux", "Windows"} :
          Construct(add_extra_args, shared_or_static_required, system)
    \/ outcome = NoOutcome /\ \E call \in DefaultCalls : SetArgument(call[1], call[2])
    \/ outcome = NoOutcome /\ \E args \in CmdLines : ParseArgs(args)
    \/ Discard

SpecParse == InitParse /\ [][NextParse]_vars

---------------------------------------------------------------------------
(* Steps and states the properties speak of *)

\* This step is the __exit__ of the innermost scope.
ExitStep == stack # <<>> /\ stack' = Pop

\* This step is a successful __enter__: a frame was pushed.
EnterStep == Len(stack') = Len(stack) + 1

\* The innermost frame and its object after the step.
NewTop == stack'[Len(stack')]
NewTopObj == objs'[NewTop.obj]

\* Every scope object was entered exactly once: the scopes are distinct objects.
AllUsedOnce == \A i \in 1..Len(objs) : objs[i].uses = 1

\* The innermost scope is of class k, its object was entered this once only, and
\* the environment is as its __enter__ left it.
JustEntered(k) ==
    /\ stack # <<>>
    /\ TopObj.kind = k
    /\ TopObj.uses = 1
    /\ environ = Top.env1

---------------------------------------------------------------------------
(* Scoped environment mutators *)

\* C1: set_env round trip.  Exiting a set_env scope that was entered on a fresh
\* object, with the environment as the entry left it, gives back exactly the
\* environment from before the entry (absent names absent, present names with
\* their value, the empty string included, other names untouched).
C1_SetEnvRoundTrip ==
    [][(JustEntered("set_env") /\ ExitStep) => environ' = Top.env0]_vars

\* C2: unset_env round trip.  Exiting an unset_env scope that was entered on a
\* fresh object, with the environment as the entry left it, gives back exactly
\* the environment from before the entry.
C2_UnsetEnvRoundTrip ==
    [][(JustEntered("unset_env") /\ ExitStep) => environ' = Top.env0]_vars

\* C2 witness: an unset_env scope that lists one name twice has run to its end,
\* the name was set before and is set to the recorded value again.
C2_Witness ==
    /\ stack = <<>>
    /\ exc = NoExc
    /\ Len(objs) = 1
    /\ objs[1].kind = "unset_env"
    /\ objs[1].unset_env = <<"CC", "CC">>
    /\ "CC" \in DOMAIN objs[1].restore_env
    /\ "CC" \in DOMAIN environ
    /\ environ["CC"] = objs[1].restore_env["CC"]

\* C3: inside an unset_env scope (the environment as its entry left it) none of
\* the listed names is present, whatever value it had before.
C3_UnsetNamesAbsent ==
    JustEntered("unset_env") =>
        \A n \in Range(TopObj.unset_env) : n \notin DOMAIN environ

\* C4: nested scopes on distinct objects, any mix of set_env and unset_env,
\* left innermost first.  Entering a set_env scope makes its values visible, and
\* the exit of every scope makes the environment from before that scope visible
\* again (the enclosing scope's values, or the state before the outermost one).
C4_NestedScopesRestore ==
    [][/\ (EnterStep /\ NewTopObj.kind = "set_env") =>
            \A j \in 1..Len(NewTopObj.set_env) :
                /\ NewTopObj.set_env[j][1] \in DOMAIN environ'
                /\ environ'[NewTopObj.set_env[j][1]] = NewTopObj.set_env[j][2]
       /\ (AllUsedOnce /\ ExitStep) => environ' = Top.env0]_vars

---------------------------------------------------------------------------
(* Scoped directory mutator *)

\* The sys.stderr line of a cd.__exit__ that could not return to path.
CouldNotReturn(path) ==
    FailLine(<<"cd: could not return to ", path, ": ", "FileNotFoundError">>)

\* The sys.stderr line of a cd.__enter__ refused for a missing dest.
NotADirectory(path) ==
    FailLine(<<"cd: '", path, "' is not a directory, but create=False.">>)

\* C6: cd round trip.  With distinct scope objects left innermost first, a cd
\* scope whose __enter__ succeeded has the working directory equal to its
\* destination, and its exit puts the working directory back to the one from
\* just before its entry (that directory still existing), at every depth and
\* also when the destination is the current directory.
C6_CdRoundTrip ==
    [][/\ (EnterStep /\ NewTopObj.kind = "cd") => cwd' = NewTopObj.dest
       /\ (ExitStep /\ TopObj.kind = "cd" /\ AllUsedOnce /\ Top.cwd0 \in dirs) =>
             cwd' = Top.cwd0]_vars

\* C6 witness: two nested cd scopes, the inner one to the directory that was
\* already current, have both been left and the working directory is the one
\* the outer scope recorded, which is not its destination.
C6_Witness ==
    /\ stack = <<>>
    /\ exc = NoExc
    /\ Len(objs) = 2
    /\ AllUsedOnce
    /\ objs[1].kind = "cd" /\ objs[2].kind = "cd"
    /\ objs[2].dest = objs[1].dest
    /\ objs[2].return_dest = objs[1].dest
    /\ objs[1].return_dest # objs[1].dest
    /\ cwd = objs[1].return_dest

\* C7: entering a cd scope with create=False whose destination is not an
\* existing directory ends in fail() with the "is not a directory, but
\* create=False." line; no frame is pushed (the body does not run), the
\* working directory is unchanged and nothing is created.
C7_CdMissingDestFails ==
    [][\A dest \in CdDests :
          (/\ WithCd(dest, FALSE)
           /\ cd_init(dest, FALSE, cwd, dirs).raises = NoExc
           /\ cd_init(dest, FALSE, cwd, dirs).obj.dest \notin dirs) =>
             /\ exc' = SystemExit
             /\ stderr' = NotADirectory(cd_init(dest, FALSE, cwd, dirs).obj.dest)
             /\ stack' = stack
             /\ cwd' = cwd
             /\ dirs' = dirs
             /\ files' = files]_vars

\* C7 witness: a cd to a/b with create=False was refused while a/b and its
\* parent a were both missing, and neither exists now.
C7_Witness ==
    /\ exc = SystemExit
    /\ stderr = NotADirectory(<<"a", "b">>)
    /\ <<"a">> \notin dirs
    /\ <<"a", "b">> \notin dirs
    /\ objs # <<>>
    /\ objs[Len(objs)].dest = <<"a", "b">>
    /\ ~objs[Len(objs)].create

\* A could-not-return failure of some cd.__exit__ is what is in flight.
ReturnFailureInFlight ==
    /\ exc = SystemExit
    /\ \E path \in Paths : stderr = CouldNotReturn(path)

\* C8 as claimed: a cd exit whose recorded directory is gone fails with the
\* line naming that directory, and once the outermost scope of the nest has
\* been left with that failure in flight, the working directory is the one from
\* before the outermost scope was entered.
C8_ReturnFailureUnwindsToStart ==
    [][/\ (ExitStep /\ TopObj.kind = "cd" /\ TopObj.return_dest \notin dirs) =>
             /\ exc' = SystemExit
             /\ stderr' = CouldNotReturn(TopObj.return_dest)
       /\ (ExitStep /\ TopObj.kind = "cd" /\ AllUsedOnce /\ Len(stack) = 1
           /\ ReturnFailureInFlight') =>
             cwd' = Top.cwd0]_vars

\* C8 as amended: the same, but the working directory ends at the directory
\* from before the outermost scope only if that directory still exists when the
\* outermost scope exits; if it was removed too, the outermost exit fails as
\* well, naming it, and the working directory stays where it was.
C8_ReturnFailureUnwinds ==
    [][/\ (ExitStep /\ TopObj.kind = "cd" /\ TopObj.return_dest \notin dirs) =>
             /\ exc' = SystemExit
             /\ stderr' = CouldNotReturn(TopObj.return_dest)
       /\ (ExitStep /\ TopObj.kind = "cd" /\ AllUsedOnce /\ Len(stack) = 1
           /\ ReturnFailureInFlight') =>
             IF Top.cwd0 \in dirs
             THEN cwd' = Top.cwd0
             ELSE cwd' = cwd /\ stderr' = CouldNotReturn(Top.cwd0)]_vars

\* C8 witness: of two nested cd scopes the inner one could not return (its
\* recorded directory, the outer destination, was removed), the outer exit
\* ran all the same and the working directory is the one the outer scope
\* recorded.
C8_Witness ==
    /\ stack = <<>>
    /\ Len(objs) = 2
    /\ AllUsedOnce
    /\ objs[1].kind = "cd" /\ objs[2].kind = "cd"
    /\ objs[2].return_dest = objs[1].dest
    /\ objs[2].return_dest \notin dirs
    /\ exc = SystemExit
    /\ stderr = CouldNotReturn(objs[2].return_dest)
    /\ cwd = objs[1].return_dest
    /\ cwd # objs[2].dest

---------------------------------------------------------------------------
(* Exit on every path *)

\* The environment and the working directory the __exit__ of the innermost
\* scope leaves when no exception is in flight.
NormalExitEnv ==
    CASE TopObj.kind = "set_env" -> set_env_exit(TopObj, environ, NoExc)
      [] TopObj.kind = "unset_env" -> unset_env_exit(TopObj, environ, NoExc)
      [] OTHER -> environ
NormalExitCwd ==
    IF TopObj.kind = "cd" THEN cd_exit(TopObj, cwd, dirs, NoExc).cwd ELSE cwd

\* The __exit__ of the innermost scope fails itself: a cd scope whose recorded
\* directory no longer exists.
ExitFails == TopObj.kind = "cd" /\ TopObj.return_dest \notin dirs

\* C5 as claimed: when the body raised or returned early, the exit of a
\* set_env, unset_env or cd scope restores what it restores on a normal exit,
\* the exception in flight is still in flight afterwards, and the value being
\* returned reaches the caller.
C5_ExitOnEveryPathUnchanged ==
    [][(ExitStep /\ ~Running) =>
          /\ environ' = NormalExitEnv
          /\ cwd' = NormalExitCwd
          /\ exc' = exc
          /\ pending # NoRet => returned' = pending]_vars

\* C5 as amended: the same, except that a cd exit that fails itself (its
\* recorded directory is gone) puts its SystemExit in place of the exception
\* or of the value being returned.
C5_ExitOnEveryPath ==
    [][(ExitStep /\ ~Running) =>
          /\ environ' = NormalExitEnv
          /\ cwd' = NormalExitCwd
          /\ IF ExitFails
             THEN exc' = SystemExit /\ returned' = returned
             ELSE /\ exc' = exc
                  /\ pending # NoRet => returned' = pending]_vars

\* C5 witness: a set_env scope nested in a cd scope raised; both exits ran, the
\* name the set_env scope had added is gone, the working directory is back and
\* the exception is still in flight at top level.
C5_Witness ==
    /\ stack = <<>>
    /\ exc = BodyError
    /\ Len(objs) = 2
    /\ AllUsedOnce
    /\ objs[1].kind = "cd"
    /\ objs[2].kind = "set_env"
    /\ objs[2].delete_env = <<"CC">>
    /\ "CC" \notin DOMAIN environ
    /\ cwd = objs[1].return_dest
    /\ cwd # objs[1].dest

---------------------------------------------------------------------------
(* CI provider predicates *)

\* C9: is_ci() is true exactly if CI is "true" in any letter case, or
\* CONTINUOUS_INTEGRATION is "true" in any letter case, or one of the registered
\* vendor predicates is true; it is false with no signal variable set.
C9_IsCiIffSignal ==
    verdict.asked =>
        /\ verdict.is_ci <=>
              \/ lower(getenv(environ, "CI", false)) = true
              \/ lower(getenv(environ, "CONTINUOUS_INTEGRATION", false)) = true
              \/ verdict.provider_sum > 0
        /\ DOMAIN environ = {} => ~verdict.is_ci

\* C10: is_azure_pipelines() is true exactly if its three variables are all
\* present and is_jenkins() exactly if its two are, whatever their values; when
\* the variables that are set are a proper subset of one of these signatures,
\* neither vendor predicate nor is_ci() is true.
C10_ConjunctiveSignatures ==
    verdict.asked =>
        /\ verdict.is_azure_pipelines <=> AzureSignature \subseteq DOMAIN environ
        /\ verdict.is_jenkins <=> JenkinsSignature \subseteq DOMAIN environ
        /\ \A sig \in {AzureSignature, JenkinsSignature} :
              (DOMAIN environ \subseteq sig /\ DOMAIN environ # sig) =>
                  /\ ~verdict.is_azure_pipelines
                  /\ ~verdict.is_jenkins
                  /\ ~verdict.is_ci

\* C10 witness: two of the three Azure variables are set, both to "true", and
\* the query answered that this is neither Azure Pipelines nor any CI.
C10_Witness ==
    /\ verdict.asked
    /\ DOMAIN environ = {"AZURE_HTTP_USER_AGENT", "AGENT_NAME"}
    /\ environ["AGENT_NAME"] = true
    /\ environ["AZURE_HTTP_USER_AGENT"] = true
    /\ ~verdict.is_azure_pipelines
    /\ ~verdict.is_ci

\* The variable each value-based vendor predicate compares with "true", as the
\* predicates' docstrings table them.
ValueVendors ==
    [is_appveyor |-> "APPVEYOR", is_circle_ci |-> "CIRCLECI",
     is_github_actions |-> "GITHUB_ACTIONS", is_travis |-> "TRAVIS"]

\* The variables whose presence each presence-based vendor predicate checks.
PresenceVendors ==
    [is_azure_pipelines |-> AzureSignature, is_jenkins |-> JenkinsSignature]

\* The environment holds the full signature of vendor p and nothing else.
OnlySignatureOf(p) ==
    IF p \in DOMAIN ValueVendors
    THEN /\ DOMAIN environ = {ValueVendors[p]}
         /\ lower(environ[ValueVendors[p]]) = true
    ELSE DOMAIN environ = PresenceVendors[p]

\* C11: no cross-triggering.  When the environment holds exactly one vendor's
\* full signature and no other signal variable, the query answers that this
\* vendor's predicate is true, that is_ci() is true, and that exactly one
\* registered predicate is true.
C11_NoCrossTriggering ==
    verdict.asked =>
        \A p \in Range(all_provider_functions) :
            OnlySignatureOf(p) =>
                /\ verdict[p]
                /\ verdict.is_ci
                /\ verdict.provider_sum = 1

\* C11 witness: only TRAVIS is set, to "True", and the query said Travis, CI,
\* one match.
C11_Witness ==
    /\ verdict.asked
    /\ DOMAIN environ = {"TRAVIS"}
    /\ environ["TRAVIS"] = <<"T", "r", "u", "e">>
    /\ verdict.is_travis
    /\ verdict.is_ci
    /\ verdict.provider_sum = 1

\* C12: with no other signal variable set, GITHUB_RUN_ID set to any value makes
\* is_github_actions() and is_ci() true, with exactly one registered predicate
\* true.
C12_GithubRunIdDetected ==
    (verdict.asked /\ DOMAIN environ = {"GITHUB_RUN_ID"}) =>
        /\ verdict.is_github_actions
        /\ verdict.is_ci
        /\ verdict.provider_sum = 1

---------------------------------------------------------------------------
(* CMakeParser: what parse_args derives *)

\* The place of the first "--" on a command line, or one past its end.
RECURSIVE SeparatorAt(_, _)
SeparatorAt(args, i) ==
    IF i > Len(args) \/ args[i] = "--" THEN i ELSE SeparatorAt(args, i + 1)

\* The tokens before the first "--" and those after it.
OptionPart(args) == SubSeq(args, 1, SeparatorAt(args, 1) - 1)
TailPart(args) == SubSeq(args, SeparatorAt(args, 1) + 1, Len(args))

\* The flag is on the command line; the value given with it.
Given(args, flag) == flag \in Range(OptionPart(args))
GivenValue(args, flag) ==
    args[1 + CHOOSE i \in 1..Len(OptionPart(args)) : args[i] = flag]

\* The value an option has in the last parse_args call: the one given on the
\* command line, else the default the parser had for it.
Chosen(flag) ==
    IF Given(outcome.args, flag)
    THEN GivenValue(outcome.args, flag)
    ELSE outcome.self0.actions[flag_to_dest[flag]].default

\* The last call was a parse_args that returned a Namespace.
Parsed == outcome.call = "parse_args" /\ outcome.raises = NoExc

\* The last call was a parse_args that ended in exit code 2.
Rejected ==
    outcome.call = "parse_args" /\ outcome.raises = SystemExit /\ outcome.code = 2

SingleConfigGenerators == makefile_generators \cup ninja_generator
MultiConfigGenerators ==
    visual_studio_generators \cup other_generators \cup ninja_multi_generator

\* The configure arguments C13 lists, for the options chosen in the last call.
ExpectedConfigureArgs ==
    <<"-G", Chosen("-G")>>
    \o (IF TruthyStr(Chosen("-A")) THEN <<"-A", Chosen("-A")>> ELSE <<>>)
    \o (IF TruthyStr(Chosen("-T")) THEN <<"-T", Chosen("-T")>> ELSE <<>>)
    \o (IF Given(outcome.args, "--shared") THEN <<"-DBUILD_SHARED_LIBS=ON">>
        ELSE IF Given(outcome.args, "--static") THEN <<"-DBUILD_SHARED_LIBS=OFF">>
        ELSE <<>>)
    \o (IF Chosen("-G") \in SingleConfigGenerators /\ TruthyStr(Chosen("--cc"))
        THEN <<"-DCMAKE_C_COMPILER=" \o Chosen("--cc")>> ELSE <<>>)
    \o (IF Chosen("-G") \in SingleConfigGenerators /\ TruthyStr(Chosen("--cxx"))
        THEN <<"-DCMAKE_CXX_COMPILER=" \o Chosen("--cxx")>> ELSE <<>>)
    \o (IF Chosen("-G") \in SingleConfigGenerators
        THEN <<"-DCMAKE_BUILD_TYPE=" \o Chosen("--build-type")>> ELSE <<>>)
    \o TailPart(outcome.args)

\* C13: argument derivation order.  Whenever parse_args returns for a
\* recognized generator, cmake_configure_args is exactly: -G and the generator,
\* -A and -T with their values if set, BUILD_SHARED_LIBS ON for --shared or OFF
\* for --static, for a single-config generator the C and C++ compiler defines
\* (each if set) and then the build-type define, then the tokens after "--" as
\* given and in order.
C13_ArgumentDerivationOrder ==
    (Parsed /\ Chosen("-G") \in AllGenerators) =>
        /\ outcome.ns["cmake_configure_args"] = ExpectedConfigureArgs
        /\ SubSeq(outcome.ns["cmake_configure_args"], 1, 2) = <<"-G", Chosen("-G")>>

\* C13 witness: a command line that gives every option and two trailing tokens
\* was parsed into the full list.
C13_Witness ==
    /\ Parsed
    /\ outcome.args = <<"-G", "Unix Makefiles", "-A", "x64", "-T", "v142", "--static",
                        "--cc", "clang", "--cxx", "clang++", "--build-type", "Debug",
                        "--", "-DSOME_OPTION=ON", "-Werror=dev">>
    /\ outcome.ns["cmake_configure_args"] =
          <<"-G", "Unix Makefiles", "-A", "x64", "-T", "v142", "-DBUILD_SHARED_LIBS=OFF",
            "-DCMAKE_C_COMPILER=clang", "-DCMAKE_CXX_COMPILER=clang++",
            "-DCMAKE_BUILD_TYPE=Debug", "-DSOME_OPTION=ON", "-Werror=dev">>

\* The compiler and build-type defines over the values of the model.
CompilerDefines ==
    {"-DCMAKE_C_COMPILER=" \o c : c \in {"gcc", "cl.exe", "icc", "clang"}}
    \cup {"-DCMAKE_CXX_COMPILER=" \o c : c \in {"g++", "cl.exe", "clang++"}}
BuildTypeDefines == {"-DCMAKE_BUILD_TYPE=" \o b : b \in BuildTypes}

\* C14: build-type placement.  For a single-config generator the build type is
\* a configure define and cmake_build_args is empty; for a multi-config one
\* cmake_configure_args holds no build-type or compiler define and
\* cmake_build_args is --config and the build type.  Every generator -G
\* accepts is in exactly one of the two classes.
C14_BuildTypePlacement ==
    Parsed =>
        /\ Chosen("-G") \in SingleConfigGenerators =>
              /\ ("-DCMAKE_BUILD_TYPE=" \o Chosen("--build-type"))
                    \in Range(outcome.ns["cmake_configure_args"])
              /\ outcome.ns["cmake_build_args"] = <<>>
        /\ Chosen("-G") \in MultiConfigGenerators =>
              /\ Range(outcome.ns["cmake_configure_args"])
                    \cap (CompilerDefines \cup BuildTypeDefines) = {}
              /\ outcome.ns["cmake_build_args"] = <<"--config", Chosen("--build-type")>>
        /\ \A g \in outcome.self0.actions["generator"].choices :
              (g \in SingleConfigGenerators) # (g \in MultiConfigGenerators)

\* C14 witness: Ninja Multi-Config with --build-type Debug was parsed into a
\* --config Debug build argument.
C14_Witness ==
    /\ Parsed
    /\ Given(outcome.args, "-G")
    /\ Chosen("-G") = "Ninja Multi-Config"
    /\ outcome.ns["cmake_build_args"] = <<"--config", "Debug">>
    /\ outcome.ns["cmake_configure_args"] = <<"-G", "Ninja Multi-Config">>

C16_SharedStaticExclusive ==
    outcome.call = "parse_args" =>
        /\ (Given(outcome.args, "--shared") /\ Given(outcome.args, "--static")) => Rejected
        /\ (/\ outcome.self0.group_required
            /\ ~Given(outcome.args, "--shared")
            /\ ~Given(outcome.args, "--static")) => Rejected
        /\ (/\ ~outcome.self0.group_required
            /\ ~Given(outcome.args, "--shared")
            /\ ~Given(outcome.args, "--static")
            /\ Parsed) =>
              Range(outcome.ns["cmake_configure_args"])
                 \cap {"-DBUILD_SHARED_LIBS=ON", "-DBUILD_SHARED_LIBS=OFF"} = {}

\* C16 witness: a parser built with shared_or_static_required=True rejected
\* --static --shared, with every other token of the line acceptable.
C16_Witness ==
    /\ Rejected
    /\ outcome.self0.group_required
    /\ outcome.args = <<"--static", "--shared">>

---------------------------------------------------------------------------
(* CMakeParser.remove: specification and properties *)

MaxRemoveArgs == 3

\* Names given to remove: registered flags and dests, the guarded names, and
\* names nothing was registered under.
RemoveNames ==
    {"--shared", "shared", "static", "-T", "-G", "generator", "extra_args", "--foo", "bar"}

\* Command lines parsed after removals.
RemoveLines ==
    {<<>>, <<"--static">>, <<"--shared">>, <<"-T", "v142">>, <<"--static", "-T", "v142">>,
     <<"--", "-Werror=dev">>}

InitRemove ==
    /\ environ = EmptyDict
    /\ InitNoParser

NextRemove ==
    \/ \E add_extra_args \in BOOLEAN, shared_or_static_required \in BOOLEAN :
          Construct(add_extra_args, shared_or_static_required, "Linux")
    \/ outcome = NoOutcome /\ \E args \in SeqsUpTo(RemoveNames, MaxRemoveArgs) : Remove(args)
    \/ outcome = NoOutcome /\ \E args \in RemoveLines : ParseArgs(args)
    \/ Discard

SpecRemove == InitRemove /\ [][NextRemove]_vars

\* The options __init__ registers, and those of them a parser no longer has.
RegisteredDests == {flag_to_dest[f] : f \in DOMAIN flag_to_dest}
RemovedDests(self) == RegisteredDests \ DOMAIN self.dest_map

\* The flags of a command line (its option part) that name removed options.
RemovedGiven(self, args) ==
    {f \in DOMAIN flag_to_dest : Given(args, f) /\ flag_to_dest[f] \in RemovedDests(self)}

\* A command line the remaining options admit: it uses no removed option, does
\* not give both --shared and --static, gives one of them if the parser
\* requires it and still has one, and uses "--" only with the passthrough.
Admitted(self, args) ==
    /\ RemovedGiven(self, args) = {}
    /\ ~(Given(args, "--shared") /\ Given(args, "--static"))
    /\ (self.group_required /\ self.group \ RemovedDests(self) # {}) =>
          (Given(args, "--shared") \/ Given(args, "--static"))
    /\ "--" \in Range(args) => (self.add_extra_args \/ "extra_args" \in DOMAIN self.actions)

\* C17: after remove() of non-generator registered options, every later
\* parse_args of a command line the remaining options admit returns a
\* namespace without the attribute of each removed option, with the attribute
\* of every option that was not removed (generator among them), and with
\* cmake_configure_args and cmake_build_args.
C17_ParseAfterRemove ==
    (/\ outcome.call = "parse_args"
     /\ RemovedDests(outcome.self0) # {}
     /\ Admitted(outcome.self0, outcome.args)) =>
        /\ outcome.raises = NoExc
        /\ DOMAIN outcome.ns \cap RemovedDests(outcome.self0) = {}
        /\ (RegisteredDests \ RemovedDests(outcome.self0)) \subseteq DOMAIN outcome.ns
        /\ {"generator", "cmake_configure_args", "cmake_build_args"}
              \subseteq DOMAIN outcome.ns

\* The last call was a remove.
Removing == outcome.call = "remove"

\* C18: remove() guards.  A call that names "-G" or "generator" raises
\* ValueError "'generator' argument may not be removed.", a call that names
\* "extra_args" raises ValueError, and in both cases the parser is as it was
\* before the call; the generator stays registered under its flag and its
\* dest in every state.
C18_RemoveGuards ==
    /\ (Removing /\ {"-G", "generator"} \cap Range(outcome.args) # {}) =>
          /\ outcome.raises = "ValueError"
          /\ outcome.message = <<"'generator' argument may not be removed.">>
          /\ parser = outcome.self0
    /\ (Removing /\ "extra_args" \in Range(outcome.args)) =>
          /\ outcome.raises = "ValueError"
          /\ parser = outcome.self0
    /\ parser # NoParser =>
          /\ "-G" \in DOMAIN parser.flag_map
          /\ "generator" \in DOMAIN parser.dest_map
          /\ "generator" \in DOMAIN parser.actions
          /\ parser.actions["generator"].option_strings = <<"-G">>

\* C18 witness: remove("--shared", "-G") was refused and --shared is still
\* registered.
C18_Witness ==
    /\ Removing
    /\ outcome.args = <<"--shared", "-G">>
    /\ outcome.raises = "ValueError"
    /\ "--shared" \in DOMAIN parser.flag_map
    /\ "-G" \in DOMAIN parser.flag_map

\* The option an argument of remove names in a parser, or PyNone.
Names(self, a) ==
    IF a \in DOMAIN self.flag_map THEN self.flag_map[a]
    ELSE IF a \in DOMAIN self.dest_map THEN a
    ELSE PyNone

\* The places of a remove call whose argument is unregistered: it named no
\* option when the call was made, or an earlier argument of the call named
\* the same option.
UnregisteredAt(self, args) ==
    {i \in 1..Len(args) :
        \/ Names(self, args[i]) = PyNone
        \/ \E j \in 1..(i - 1) : Names(self, args[j]) = Names(self, args[i])}

\* The arguments at the places in I, in the order given.
RECURSIVE Picked(_, _, _)
Picked(args, I, i) ==
    IF i > Len(args) THEN <<>>
    ELSE (IF i \in I THEN <<args[i]>> ELSE <<>>) \o Picked(args, I, i + 1)

\* C19: remove() with unregistered names.  A call without a guarded name
\* raises ValueError exactly when one of its arguments is unregistered; the
\* message is "Cannot remove unregistered arg(s): " and the list of every
\* unregistered argument in the order given, and every registered option the
\* call names is gone from flag_map, dest_map and the parser's options, while
\* every other option stays.
C19_RemoveUnregistered ==
    (Removing /\ {"-G", "generator", "extra_args"} \cap Range(outcome.args) = {}) =>
        LET self0 == outcome.self0
            missing == Picked(outcome.args, UnregisteredAt(self0, outcome.args), 1)
            named == {Names(self0, a) : a \in Range(outcome.args)} \ {PyNone}
        IN /\ (outcome.raises = "ValueError") = (missing # <<>>)
           /\ missing # <<>> =>
                 outcome.message = <<"Cannot remove unregistered arg(s): ">> \o missing
           /\ DOMAIN parser.dest_map = DOMAIN self0.dest_map \ named
           /\ DOMAIN parser.actions = DOMAIN self0.actions \ named
           /\ DOMAIN parser.flag_map =
                 {f \in DOMAIN self0.flag_map : self0.flag_map[f] \notin named}

\* C19 witness: remove("--foo", "--shared", "bar") raised, listing --foo and
\* bar, and --shared was removed.
C19_Witness ==
    /\ Removing
    /\ outcome.args = <<"--foo", "--shared", "bar">>
    /\ "--shared" \in DOMAIN outcome.self0.flag_map
    /\ outcome.raises = "ValueError"
    /\ outcome.message = <<"Cannot remove unregistered arg(s): ", "--foo", "bar">>
    /\ "--shared" \notin DOMAIN parser.flag_map
    /\ "shared" \notin DOMAIN parser.actions

---------------------------------------------------------------------------
(* CMakeParser.set_argument: specification and properties *)

\* Names given to set_argument: flags and dests of registered options, the
\* dest of the help option (not registered, found among the parser's
\* options), and names that resolve to nothing.
SetNames == {"-G", "generator", "--cc", "help", "--foo", "extra_args"}

\* Keyword arguments given to set_argument: supported keys alone and
\* together, and unsupported keys alone and next to supported ones.
SetAttrs ==
    {[default |-> "clang"],
     [choices |-> {"clang", "gcc"}],
     [help |-> "text", metavar |-> "NAME", required |-> TRUE],
     [default |-> "clang", choices |-> {"clang", "gcc"}],
     [dest |-> "other"],
     [default |-> "clang", dest |-> "other"],
     [default |-> "clang", nargs |-> "?", type |-> "str"]}

InitSet ==
    /\ environ = EmptyDict
    /\ InitNoParser

NextSet ==
    \/ \E add_extra_args \in BOOLEAN, shared_or_static_required \in BOOLEAN :
          Construct(add_extra_args, shared_or_static_required, "Linux")
    \/ outcome = NoOutcome /\ \E arg \in SetNames, attrs \in SetAttrs : SetArgument(arg, attrs)
    \/ Discard

SpecSet == InitSet /\ [][NextSet]_vars

\* The options of a parser a name resolves to: by registered flag or dest, by
\* dest or by option string.
Resolved(self, arg) ==
    {d \in DOMAIN self.actions :
        \/ arg = d
        \/ arg \in Range(self.actions[d].option_strings)
        \/ arg \in DOMAIN self.flag_map /\ self.flag_map[arg] = d}

\* C20: set_argument() guards.  The call raises ValueError exactly when a key
\* is outside {default, choices, required, help, metavar}, or the target is
\* "-G" / "generator" and choices is a key, or the name resolves to no
\* argument; when it raises the parser is as it was before the call.
\* Otherwise the named argument has the given value for each given key, and
\* every other attribute of every argument, and the registry, are unchanged.
C20_SetArgumentGuards ==
    outcome.call = "set_argument" =>
        LET self0 == outcome.self0
            arg == outcome.arg
            attrs == outcome.attrs
            refused ==
                \/ DOMAIN attrs \ {"default", "choices", "required", "help", "metavar"} # {}
                \/ arg \in {"-G", "generator"} /\ "choices" \in DOMAIN attrs
                \/ Resolved(self0, arg) = {}
        IN /\ (outcome.raises = "ValueError") = refused
           /\ outcome.raises \in {"ValueError", NoExc}
           /\ refused => parser = outcome.self0
           /\ ~refused =>
                 /\ [parser EXCEPT !.actions = self0.actions] = self0
                 /\ DOMAIN parser.actions = DOMAIN self0.actions
                 /\ \E d \in Resolved(self0, arg) :
                       \A e \in DOMAIN self0.actions :
                          /\ DOMAIN parser.actions[e] = DOMAIN self0.actions[e]
                          /\ \A k \in DOMAIN self0.actions[e] :
                                parser.actions[e][k] =
                                   IF e = d /\ k \in DOMAIN attrs
                                   THEN attrs[k] ELSE self0.actions[e][k]

\* C20 witness: set_argument("-G", default=..., choices=...) was refused and
\* the default of the generator is still Ninja.
C20_Witness ==
    /\ outcome.call = "set_argument"
    /\ outcome.arg = "-G"
    /\ outcome.attrs = [default |-> "clang", choices |-> {"clang", "gcc"}]
    /\ outcome.raises = "ValueError"
    /\ parser.actions["generator"].default = "Ninja"

---------------------------------------------------------------------------
(* Scope objects used more than once: a decorated function called again *)

\* Scope entries in a run of SpecReuse.
MaxReuseEnters == 2

InitReuse ==
    /\ environ \in {EmptyDict, [n \in {"CC"} |-> <<"i", "c", "c">>]}
    /\ cwd = Root
    /\ dirs = {Root}
    /\ files = {}
    /\ InitRest

\* The scope object i is not active: the function it decorates is not running.
NotActive(i) == \A j \in 1..Len(stack) : stack[j].obj # i

\* Decorated functions are called, and called again once they have returned,
\* and the code between the calls sets and deletes a variable.
NextReuse ==
    \/ \E kwargs \in ScopeKwargs : entered < MaxReuseEnters /\ WithSetEnv(kwargs)
    \/ \E args \in ScopeArgs : entered < MaxReuseEnters /\ WithUnsetEnv(args)
    \/ \E i \in 1..Len(objs) :
          entered < MaxReuseEnters /\ NotActive(i) /\ ReEnterSetEnv(i)
    \/ \E i \in 1..Len(objs) :
          entered < MaxReuseEnters /\ NotActive(i) /\ ReEnterUnsetEnv(i)
    \/ ExitSetEnv
    \/ ExitUnsetEnv
    \/ stack = <<>> /\ \E value \in {<<"i", "c", "c">>, <<"c", "l", "a", "n", "g">>} :
                          Setenv("CC", value)
    \/ stack = <<>> /\ Unsetenv("CC")

SpecReuse == InitReuse /\ [][NextReuse]_vars

\* The innermost scope is of class k, and the environment is as its __enter__
\* left it.
InScope(k) ==
    /\ stack # <<>>
    /\ TopObj.kind = k
    /\ environ = Top.env1

\* C22: reuse of one set_env object.  Each enter/exit pair of a set_env object
\* whose uses follow one another gives back the environment from just before
\* that enter, whatever the environment was changed to between the uses.
C22_SetEnvReuseRestores ==
    [][(InScope("set_env") /\ ExitStep) => environ' = Top.env0]_vars

\* C23: reuse of one unset_env object.  Each enter/exit pair of an unset_env
\* object whose uses follow one another gives back the environment from just
\* before that enter; a name absent before a later use is absent after it.
C23_UnsetEnvReuseRestores ==
    [][(InScope("unset_env") /\ ExitStep) => environ' = Top.env0]_vars

\* C25: after every __enter__ of a set_env object, a re-activation included,
\* each name of its mapping is in exactly one of restore_env and delete_env.
C25_RestoreXorDelete ==
    [][(EnterStep /\ NewTopObj.kind = "set_env") =>
          \A j \in 1..Len(NewTopObj.set_env) :
             (NewTopObj.set_env[j][1] \in DOMAIN NewTopObj.restore_env)
                # (NewTopObj.set_env[j][1] \in Range(NewTopObj.delete_env))]_vars

\* C24: re-entrant use of one cd object.  When the outermost activation of a
\* cd object that was entered more than once is left, with the directories it
\* started from and recorded still there, the working directory is the one
\* from before that activation.
C24_CdReentrantUnwinds ==
    [][(/\ ExitStep
        /\ Len(stack) = 1
        /\ TopObj.kind = "cd"
        /\ TopObj.uses >= 2
        /\ Top.cwd0 \in dirs
        /\ TopObj.return_dest \in dirs) => cwd' = Top.cwd0]_vars

---------------------------------------------------------------------------
(* CMakeParser.add_argument, with the other calls of the class around it *)

\* Positional arguments a parser gets in a run of SpecCalls or SpecReserved.
MaxPositionals == 2

\* The name and the dest keyword of the add_argument calls: the three reserved
\* names, and a flag of the caller's own without a dest and with a reserved
\* name for dest.
AddCalls ==
    {<<"cmake_configure_args", PyNone>>, <<"cmake_build_args", PyNone>>,
     <<"extra_args", PyNone>>, <<"--x", PyNone>>,
     <<"--x", "cmake_configure_args">>, <<"--x", "cmake_build_args">>}

\* Command lines parsed around add_argument, remove and set_argument calls.
CallLines ==
    {<<>>, <<"--static">>, <<"--shared">>, <<"-T", "v142">>, <<"--x", "v">>,
     <<"--", "-Werror=dev">>, <<"--x", "v", "--", "-Werror=dev", "-DSOME_OPTION=ON">>}

\* The remove calls of SpecCalls.
CallRemoves ==
    {<<"--shared">>, <<"static">>, <<"-T", "--foo">>, <<"toolset", "-G">>, <<"--x">>}

\* An add_argument call that would add a positional is made while the parser
\* has fewer than MaxPositionals of them.
MayAdd(name) ==
    /\ parser # NoParser
    /\ IF name = "extra_args" THEN Len(parser.positionals) < MaxPositionals ELSE TRUE

NextCalls ==
    \/ \E add_extra_args \in BOOLEAN : Construct(add_extra_args, FALSE, "Linux")
    \/ outcome = NoOutcome /\ DisablePassthrough
    \/ outcome = NoOutcome
          /\ \E call \in AddCalls : MayAdd(call[1]) /\ AddArgument(call[1], call[2])
    \/ outcome = NoOutcome /\ \E args \in CallRemoves : Remove(args)
    \/ outcome = NoOutcome /\ \E call \in DefaultCalls : SetArgument(call[1], call[2])
    \/ outcome = NoOutcome /\ \E args \in CallLines : ParseArgs(args)
    \/ Discard

SpecCalls == InitRemove /\ [][NextCalls]_vars

\* The last call was an add_argument.
Adding == outcome.call = "add_argument"

\* C21: add_argument() rejects reserved names.  Registering
\* cmake_configure_args or cmake_build_args always raises ValueError;
\* registering extra_args raises ValueError while add_extra_args is True and
\* adds the argument once add_extra_args is False; a rejected call leaves the
\* parser as it was.
C21_AddArgumentReserved ==
    Adding =>
        /\ outcome.name \in {"cmake_configure_args", "cmake_build_args"} =>
              outcome.raises = "ValueError"
        /\ (outcome.name = "extra_args" /\ outcome.self0.add_extra_args) =>
              outcome.raises = "ValueError"
        /\ (outcome.name = "extra_args" /\ ~outcome.self0.add_extra_args) =>
              /\ outcome.raises = NoExc
              /\ parser.positionals =
                    Append(outcome.self0.positionals, [dest |-> "extra_args", user |-> TRUE])
              /\ "extra_args" \in DOMAIN parser.actions
        /\ outcome.raises # NoExc => parser = outcome.self0

\* C21 witness: add_argument("extra_args") was accepted by a parser whose
\* add_extra_args is False and that had no positional argument yet.
C21_Witness ==
    /\ Adding
    /\ outcome.name = "extra_args"
    /\ outcome.raises = NoExc
    /\ outcome.self0.positionals = <<>>
    /\ parser.positionals = <<[dest |-> "extra_args", user |-> TRUE]>>

\* C26: removing one of the shared/static pair keeps the other working.  After
\* remove of shared alone (by flag or by dest), parse_args(["--static"])
\* returns with -DBUILD_SHARED_LIBS=OFF in cmake_configure_args; after remove
\* of static alone, parse_args(["--shared"]) returns with
\* -DBUILD_SHARED_LIBS=ON.
C26_RemoveOneOfPair ==
    outcome.call = "parse_args" =>
        /\ (RemovedDests(outcome.self0) = {"shared"} /\ outcome.args = <<"--static">>) =>
              /\ outcome.raises = NoExc
              /\ "-DBUILD_SHARED_LIBS=OFF" \in Range(outcome.ns["cmake_configure_args"])
        /\ (RemovedDests(outcome.self0) = {"static"} /\ outcome.args = <<"--shared">>) =>
              /\ outcome.raises = NoExc
              /\ "-DBUILD_SHARED_LIBS=ON" \in Range(outcome.ns["cmake_configure_args"])

\* The last call gave parse_args one registered flag (with its value, if it
\* takes one) and nothing else.
OneFlagLine ==
    /\ outcome.call = "parse_args"
    /\ outcome.args # <<>>
    /\ Head(outcome.args) \in DOMAIN flag_to_dest
    /\ Len(outcome.args) =
           IF flag_to_dest[Head(outcome.args)] \in {"shared", "static"} THEN 1 ELSE 2

\* C27: the registry stays in lock step.  After any sequence of remove()
\* calls, successful or failing, and set_argument() calls, flag_map and
\* dest_map hold the same options (each dest flag_map leads to is a key of
\* dest_map and the reverse, and the two have the same size), the generator is
\* in both, and a flag of the class is a key of flag_map exactly when the
\* parser still knows it as an option string: parse_args exits with code 2 on
\* a command line giving a flag that left the maps, and does not on a command
\* line that gives one flag still in them.
C27_RegistryLockStep ==
    parser # NoParser =>
        /\ Range2(parser.flag_map) = DOMAIN parser.dest_map
        /\ Cardinality(DOMAIN parser.flag_map) = Cardinality(DOMAIN parser.dest_map)
        /\ "-G" \in DOMAIN parser.flag_map
        /\ "generator" \in DOMAIN parser.dest_map
        /\ \A f \in DOMAIN flag_to_dest :
               f \in DOMAIN parser.flag_map <=> is_option_string(parser, f)
        /\ \A f \in DOMAIN parser.flag_map : parser.flag_map[f] = flag_to_dest[f]
        /\ outcome.call = "parse_args" =>
               /\ RemovedGiven(outcome.self0, outcome.args) # {} => Rejected
               /\ (OneFlagLine /\ Head(outcome.args) \in DOMAIN outcome.self0.flag_map) =>
                      ~Rejected

\* A remove("-T", "--foo") failed on "--foo" after it took toolset out.
C27_Witness ==
    /\ outcome.call = "remove"
    /\ outcome.raises = "ValueError"
    /\ "toolset" \in DOMAIN outcome.self0.dest_map
    /\ "toolset" \notin DOMAIN parser.dest_map
    /\ "-T" \notin DOMAIN parser.flag_map
    /\ ~is_option_string(parser, "-T")

\* C28: extra tokens reach cmake_configure_args only through the passthrough
\* of the class.  When add_extra_args was False before the first parse_args
\* (the parser has no extra_args of its own making and will not make one), the
\* cmake_configure_args of a parse_args that returns holds none of the tokens
\* given after "--", even if the caller registered an extra_args argument.
C28_OnlyBuiltinPassthrough ==
    (/\ Parsed
     /\ ~outcome.self0.add_extra_args
     /\ \A i \in 1..Len(outcome.self0.positionals) : outcome.self0.positionals[i].user) =>
        Range(outcome.ns["cmake_configure_args"]) \cap Range(TailPart(outcome.args)) = {}

(***************************************************************************)
(* A parser built with the passthrough enabled, and only add_argument and   *)
(* parse_args called on it.                                                 *)
(***************************************************************************)

NextReserved ==
    \/ Construct(TRUE, FALSE, "Linux")
    \/ outcome = NoOutcome /\ \E call \in AddCalls :
           MayAdd(call[1]) /\ AddArgument(call[1], call[2])
    \/ outcome = NoOutcome /\ \E args \in CallLines : ParseArgs(args)
    \/ Discard

SpecReserved == InitRemove /\ [][NextReserved]_vars

\* The names the class keeps for itself.
ReservedNames == {"extra_args", "cmake_configure_args", "cmake_build_args"}

\* C29: the reserved names are protected in every state of a parser built
\* with the passthrough enabled.  No sequence of add_argument and parse_args
\* calls leaves the parser with an argument of the caller whose name or dest
\* is extra_args, cmake_configure_args or cmake_build_args:
\* add_argument("extra_args") raises ValueError also after parse_args has
\* run, and add_argument("--x", dest=<a reserved name>) raises ValueError.
C29_ReservedInEveryState ==
    /\ parser # NoParser =>
          /\ \A i \in 1..Len(parser.positionals) :
                 parser.positionals[i].user => parser.positionals[i].dest \notin ReservedNames
          /\ \A d \in DOMAIN parser.actions :
                 "--x" \in Range(parser.actions[d].option_strings) => d \notin ReservedNames
    /\ (Adding /\ (outcome.name \in ReservedNames \/ outcome.dest \in ReservedNames)) =>
           outcome.raises = "ValueError"

(***************************************************************************)
(* CMakeParser.parse_args called again and again                            *)
(***************************************************************************)

\* The extra_args positionals parse_args gave the parser.
BuiltinPositionals(self) ==
    {i \in 1..Len(self.positionals) :
        self.positionals[i].dest = "extra_args" /\ ~self.positionals[i].user}

\* The parser as it was before its first parse_args, when no add_argument
\* came after: without the positional of parse_args, add_extra_args set again.
BeforeFirstParse(self) ==
    IF BuiltinPositionals(self) = {} THEN self
    ELSE [self EXCEPT !.add_extra_args = TRUE,
                      !.positionals = <<>>,
                      !.actions = Del(@, "extra_args")]

\* C30: parse_args can be called repeatedly.  It registers extra_args at most
\* once, and every call gives what a first call with the same command line on
\* the same options would give: the same exception and exit code, or the same
\* cmake_configure_args and cmake_build_args, whatever command lines the
\* parser was given before.
C30_ParseArgsRepeatable ==
    /\ parser # NoParser => Cardinality(BuiltinPositionals(parser)) <= 1
    /\ outcome.call = "parse_args" =>
          LET first == CMakeParser_parse_args(BeforeFirstParse(outcome.self0), outcome.args)
          IN /\ first.raises = outcome.raises
             /\ first.code = outcome.code
             /\ outcome.raises = NoExc =>
                   /\ first.ns["cmake_configure_args"] = outcome.ns["cmake_configure_args"]
                   /\ first.ns["cmake_build_args"] = outcome.ns["cmake_build_args"]

\* A later parse_args call, on a parser that already had its extra_args, was
\* given tokens after "--" and returned them in cmake_configure_args.
C30_Witness ==
    /\ Parsed
    /\ BuiltinPositionals(outcome.self0) # {}
    /\ TailPart(outcome.args) # <<>>
    /\ Range(TailPart(outcome.args)) \subseteq Range(outcome.ns["cmake_configure_args"])
    /\ Cardinality(BuiltinPositionals(parser)) = 1

====
